---- MODULE Spec2Model ----
(***************************************************************************)
(* Model of the minigame key-revelation engine of Momento:                *)
(*   src/core/challenges/minigames.py  (KeyRevealManager)                 *)
(*   src/core/challenges/models.py     (MinigameProgress)                 *)
(*   src/routes/minigames.py           (generation / completion routes)   *)
(*   src/routes/auth.py                (login / logout)                   *)
(* Strings are modelled as sequences of one-character strings.            *)
(***************************************************************************)
EXTENDS Integers, Sequences, FiniteSets, Bags, TLC

VARIABLES
    key,          \* SpecSplit / SpecReveal: the key under test
    num_parts,    \* SpecSplit: the num_parts argument of split_key
    key_parts,    \* SpecSplit: [called, raised, parts], parts being the value split_key returned
    challenges,   \* table challenges: id -> [encrypted_message, is_active]
    progress,     \* table minigame_progress: a bag of rows
    current_user, \* per browser session: the logged-in user id, or NoUser
    session,      \* per browser session: the Flask session's puzzle entries
    response,     \* the response to the last request (SpecReveal: the last manager call and its result)
    issued,       \* history: <<session, user, challenge, game>> of generation requests that stored puzzle state
    completed_in, \* history: <<session, user, challenge, game>> of successful completion requests
    inflight,     \* SpecConc: completion requests between their existence query and their insert
    scramble,     \* SpecScramble: the locals of a call of generate_scramble, and where it stands
    startup,      \* SpecStartup: where the default challenge initialization stands
    now,          \* the clock, in seconds
    requests,     \* rate limiter: per user, the times of the submissions it has let through
    solved,       \* challenge manager: per user, the challenges whose flag the user has submitted
    buyer,        \* table buyers: user -> [solved_challenges]
    seller,       \* table sellers: user -> [solved_challenges]
    hub,          \* the hub page last rendered: [user_id, challenge_id, key_parts, revealed_key]
    slider,       \* SpecPuzzle: the locals of a call of generate_slider_puzzle, and where it stands
    payments,     \* table payments: id -> [product_id, status, checkout_request_id]
    products      \* table products: id -> [stock]

\* the variables of the key-revelation engine and its routes
engine_vars == <<key, num_parts, key_parts, challenges, progress,
                 current_user, session, response, issued, completed_in, inflight>>

engine_vars_but_response == <<key, num_parts, key_parts, challenges, progress,
                              current_user, session, issued, completed_in, inflight>>

\* the variables of the flag submission route, of startup and of generate_scramble
flag_vars == <<now, requests, solved, buyer, seller>>
\* the variables of the hub page, of generate_slider_puzzle and of the M-Pesa routes
more_vars == <<hub, slider, payments, products>>
other_vars == <<scramble, startup, flag_vars, more_vars>>

vars == <<engine_vars, other_vars>>

None == "None"

\* the values of other_vars while the key-revelation engine is followed:
\* no call of generate_scramble, startup over, nothing submitted
MoreInit ==
    /\ hub = [rendered |-> FALSE]
    /\ slider = [pc |-> "idle"]
    /\ payments = <<>>
    /\ products = <<>>

OtherInit ==
    /\ MoreInit
    /\ scramble = [pc |-> "idle"]
    /\ startup = [pc |-> "idle"]
    /\ now = 0
    /\ requests = <<>>
    /\ solved = <<>>
    /\ buyer = <<>>
    /\ seller = <<>>

\* current_user of a session nobody is logged in on (not current_user.is_authenticated)
NoUser == 0

----------------------------------------------------------------------------
(* Bounds of the model *)

MaxKeyLen == 6
MaxParts == 8
NumUsers == 2

\* the user of the specifications that follow a single user
SoloUser == 1

Alphabet == {"a", "b"}
Users == 1 .. NumUsers

RECURSIVE SeqsUpTo(_, _)
SeqsUpTo(S, n) ==
    IF n = 0 THEN {<<>>}
    ELSE LET shorter == SeqsUpTo(S, n - 1)
         IN  shorter \cup {Append(q, x) : q \in {r \in shorter : Len(r) = n - 1}, x \in S}

Keys == SeqsUpTo(Alphabet, MaxKeyLen)

----------------------------------------------------------------------------
(* KeyRevealManager: key splitting *)

minigame_types == <<"wheel", "quiz", "memory", "slider", "scramble">>

GameTypes == {minigame_types[i] : i \in DOMAIN minigame_types}

\* the slice taken one character too far to the right
Slice_shifted(s, start, size) ==
    SubSeq(s, start + 2, IF start + size + 1 > Len(s) THEN Len(s) ELSE start + size + 1)

\* key[start:start + size] with 0-based start (Python slice, clipped at the end)
Slice(s, start, size) ==
    SubSeq(s, start + 1, IF start + size > Len(s) THEN Len(s) ELSE start + size)

\* the split that gives the extra character to the last `remainder` parts
RECURSIVE split_loop_tail(_, _, _, _, _)
split_loop_tail(k, n, i, start, parts) ==
    IF i >= n THEN parts
    ELSE LET base_size == Len(k) \div n
             remainder == Len(k) % n
             size      == base_size + (IF i >= n - remainder THEN 1 ELSE 0)
         IN  IF size > 0
             THEN split_loop_tail(k, n, i + 1, start + size,
                      Append(parts,
                          [index     |-> i,
                           value     |-> Slice(k, start, size),
                           game_type |-> minigame_types[(i % Len(minigame_types)) + 1],
                           revealed  |-> FALSE]))
             ELSE split_loop_tail(k, n, i + 1, start, parts)

\* the split that gives the extra character to one part too many
RECURSIVE split_loop_extra(_, _, _, _, _)
split_loop_extra(k, n, i, start, parts) ==
    IF i >= n THEN parts
    ELSE LET base_size == Len(k) \div n
             remainder == Len(k) % n
             size      == base_size + (IF i <= remainder THEN 1 ELSE 0)
         IN  IF size > 0
             THEN split_loop_extra(k, n, i + 1, start + size,
                      Append(parts,
                          [index     |-> i,
                           value     |-> Slice(k, start, size),
                           game_type |-> minigame_types[(i % Len(minigame_types)) + 1],
                           revealed  |-> FALSE]))
             ELSE split_loop_extra(k, n, i + 1, start, parts)

\* the split that numbers the game types from the second of the cycle
RECURSIVE split_loop_nextgame(_, _, _, _, _)
split_loop_nextgame(k, n, i, start, parts) ==
    IF i >= n THEN parts
    ELSE LET base_size == Len(k) \div n
             remainder == Len(k) % n
             size      == base_size + (IF i < remainder THEN 1 ELSE 0)
         IN  IF size > 0
             THEN split_loop_nextgame(k, n, i + 1, start + size,
                      Append(parts,
                          [index     |-> i,
                           value     |-> Slice(k, start, size),
                           game_type |-> minigame_types[((i + 1) % Len(minigame_types)) + 1],
                           revealed  |-> FALSE]))
             ELSE split_loop_nextgame(k, n, i + 1, start, parts)

\* the body of `for i in range(num_parts)`, from iteration i on
RECURSIVE split_loop(_, _, _, _, _)
split_loop(k, n, i, start, parts) ==
    IF i >= n THEN parts
    ELSE LET base_size == Len(k) \div n
             remainder == Len(k) % n
             size      == base_size + (IF i < remainder THEN 1 ELSE 0)
         IN  IF size > 0
             THEN split_loop(k, n, i + 1, start + size,
                      Append(parts,
                          [index     |-> i,
                           value     |-> Slice(k, start, size),
                           game_type |-> minigame_types[(i % Len(minigame_types)) + 1],
                           revealed  |-> FALSE]))
             ELSE split_loop(k, n, i + 1, start, parts)

split_key(k, n) ==
    IF k = <<>> THEN <<>> ELSE split_loop(k, n, 0, 0, <<>>)

\* the division that runs without the `if not key` guard before it
split_key_raises_unguarded(k, n) == n = 0

\* split_key raises ZeroDivisionError: `key_length // num_parts` is reached
\* (the key is not empty) with num_parts = 0
split_key_raises(k, n) == k # <<>> /\ n = 0

\* the default value of split_key's num_parts parameter
DefaultNumParts == 5

\* concatenation of the 'value' fields of a list of parts, in list order
RECURSIVE ConcatValues(_)
ConcatValues(parts) ==
    IF parts = <<>> THEN <<>>
    ELSE Head(parts).value \o ConcatValues(Tail(parts))

----------------------------------------------------------------------------
(* MinigameProgress: the minigame_progress table.  Rows carry no uniqueness  *)
(* constraint, so the table is a bag of rows.                                *)

Row(user_id, challenge_id, minigame_type, part_index, revealed_part) ==
    [user_id       |-> user_id,
     challenge_id  |-> challenge_id,
     minigame_type |-> minigame_type,
     part_index    |-> part_index,
     revealed_part |-> revealed_part]

\* the query that filters on the challenge only
progress_rows_anyuser(table, user_id, challenge_id) ==
    {r \in BagToSet(table) : r.challenge_id = challenge_id}

\* MinigameProgress.get_user_progress: the rows of a user on a challenge
progress_rows(table, user_id, challenge_id) ==
    {r \in BagToSet(table) : r.user_id = user_id /\ r.challenge_id = challenge_id}

\* MinigameProgress.has_completed
has_completed(table, user_id, challenge_id, minigame_type) ==
    \E r \in BagToSet(table) :
        /\ r.user_id = user_id
        /\ r.challenge_id = challenge_id
        /\ r.minigame_type = minigame_type

\* an insert that replaces the table by the new row
mark_completed_replace(table, user_id, challenge_id, minigame_type, part_index, revealed_part) ==
    SetToBag({Row(user_id, challenge_id, minigame_type, part_index, revealed_part)})

\* MinigameProgress.mark_completed: add one row and commit
mark_completed(table, user_id, challenge_id, minigame_type, part_index, revealed_part) ==
    table (+) SetToBag({Row(user_id, challenge_id, minigame_type, part_index, revealed_part)})

\* number of rows of the table for one (user, challenge, minigame type)
RowCount(table, user_id, challenge_id, minigame_type) ==
    LET matching == {r \in BagToSet(table) :
                        /\ r.user_id = user_id
                        /\ r.challenge_id = challenge_id
                        /\ r.minigame_type = minigame_type}
        RECURSIVE Sum(_)
        Sum(S) == IF S = {} THEN 0
                  ELSE LET r == CHOOSE x \in S : TRUE
                       IN  CopiesIn(r, table) + Sum(S \ {r})
    IN  Sum(matching)

----------------------------------------------------------------------------
(* KeyRevealManager: progress and revelation *)

\* KeyRevealManager.get_user_progress: game type -> entry, for the game types
\* that have a row.  The entry's revealed_part is that of the row the query
\* returned last; the query has no ORDER BY, so the entry lists the candidates.
get_user_progress(table, user_id, challenge_id) ==
    LET rows == progress_rows(table, user_id, challenge_id)
    IN  [g \in {r.minigame_type : r \in rows} |->
            [completed     |-> TRUE,
             revealed_part |-> {r.revealed_part : r \in {x \in rows : x.minigame_type = g}}]]

\* mark_game_completed without its existence check
mark_game_completed_unchecked(table, user_id, challenge_id, game_type, revealed_part, part_index) ==
    mark_completed(table, user_id, challenge_id, game_type, part_index, revealed_part)

\* KeyRevealManager.mark_game_completed, as one uninterrupted call
mark_game_completed(table, user_id, challenge_id, game_type, revealed_part, part_index) ==
    IF ~has_completed(table, user_id, challenge_id, game_type)
    THEN mark_completed(table, user_id, challenge_id, game_type, part_index, revealed_part)
    ELSE table

\* a mask one '*' short for parts of two or more characters
Stars_short(n) == [i \in 1 .. (IF n > 1 THEN n - 1 ELSE n) |-> "*"]

\* '*' * n
Stars(n) == [i \in 1 .. n |-> "*"]

\* the loop revealing every part as soon as any game is completed
RECURSIVE reveal_loop_any(_, _, _)
reveal_loop_any(prog, parts, result) ==
    IF parts = <<>> THEN result
    ELSE LET part == Head(parts)
         IN  reveal_loop_any(prog, Tail(parts),
                 IF DOMAIN prog # {}
                 THEN result \o part.value
                 ELSE result \o [i \in 1 .. Len(part.value) |-> "*"])

\* the loop putting each part in front of the result
RECURSIVE reveal_loop_prepend(_, _, _)
reveal_loop_prepend(prog, parts, result) ==
    IF parts = <<>> THEN result
    ELSE LET part      == Head(parts)
             game_type == part.game_type
         IN  reveal_loop_prepend(prog, Tail(parts),
                 IF game_type \in DOMAIN prog /\ prog[game_type].completed
                 THEN part.value \o result
                 ELSE [i \in 1 .. Len(part.value) |-> "*"] \o result)

\* the body of `for part in key_parts` of get_revealed_key
RECURSIVE reveal_loop(_, _, _)
reveal_loop(prog, parts, result) ==
    IF parts = <<>> THEN result
    ELSE LET part      == Head(parts)
             game_type == part.game_type
         IN  reveal_loop(prog, Tail(parts),
                 IF game_type \in DOMAIN prog /\ prog[game_type].completed
                 THEN result \o part.value
                 ELSE result \o Stars(Len(part.value)))

get_revealed_key(table, user_id, challenge_id, parts) ==
    reveal_loop(get_user_progress(table, user_id, challenge_id), parts, <<>>)

----------------------------------------------------------------------------
(* SpecSplit: split_key applied to a key and a part count drawn at Init *)

InitSplit ==
    /\ key \in Keys
    /\ num_parts \in 0 .. MaxParts
    /\ key_parts = [called |-> FALSE, raised |-> FALSE, parts |-> <<>>]
    /\ challenges = <<>>
    /\ progress = EmptyBag
    /\ current_user = <<>>
    /\ session = <<>>
    /\ response = None
    /\ issued = {}
    /\ completed_in = {}
    /\ inflight = {}
    /\ OtherInit

SplitKey ==
    /\ ~key_parts.called
    /\ key_parts' = [called |-> TRUE,
                     raised |-> split_key_raises(key, num_parts),
                     parts  |-> IF split_key_raises(key, num_parts) THEN <<>>
                                ELSE split_key(key, num_parts)]
    /\ UNCHANGED <<other_vars, key, num_parts, challenges, progress, current_user,
                   session, response, issued, completed_in, inflight>>

NextSplit == SplitKey

SpecSplit == InitSplit /\ [][NextSplit]_vars

----------------------------------------------------------------------------
(* SpecReveal: the manager's mark_game_completed and get_revealed_key called *)
(* directly, in sequence, on the parts of a key drawn at Init.               *)

ManagerChallenge == "aes_easy"

\* the user id the manager is called with
RevealUsers == {SoloUser}

\* the parts of a key as the routes obtain them: split_key(key)
default_parts(k) == split_key(k, DefaultNumParts)

\* the value of the part of k bound to a game type, <<>> when there is none:
\* next((p for p in key_parts if p['game_type'] == g), None)
part_for(k, g) ==
    LET parts == default_parts(k)
        idx   == {i \in DOMAIN parts : parts[i].game_type = g}
    IN  IF idx = {} THEN <<>>
        ELSE parts[CHOOSE i \in idx : \A j \in idx : i <= j].value

InitReveal ==
    /\ key \in Keys
    /\ num_parts = DefaultNumParts
    /\ key_parts = [called |-> FALSE, raised |-> FALSE, parts |-> <<>>]
    /\ challenges = <<>>
    /\ progress = EmptyBag
    /\ current_user = <<>>
    /\ session = <<>>
    /\ response = [op |-> None]
    /\ issued = {}
    /\ completed_in = {}
    /\ inflight = {}
    /\ OtherInit

\* key_reveal_manager.mark_game_completed(user, challenge, game, revealed_part)
\* with part_index left at its default 0, as every caller does
MarkGameCompleted(u, g) ==
    LET args == <<u, ManagerChallenge, g, part_for(key, g), 0>>
    IN  /\ progress' = mark_game_completed(progress, u, ManagerChallenge, g, part_for(key, g), 0)
        /\ response' = [op       |-> "mark_game_completed",
                        args     |-> args,
                        repeated |-> (response.op = "mark_game_completed" /\ response.args = args)]
        /\ UNCHANGED <<other_vars, key, num_parts, key_parts, challenges, current_user, session,
                       issued, completed_in, inflight>>

\* key_reveal_manager.get_revealed_key(user, challenge, split_key(key))
GetRevealedKey(u) ==
    /\ response' = [op      |-> "get_revealed_key",
                    user_id |-> u,
                    result  |-> get_revealed_key(progress, u, ManagerChallenge, default_parts(key))]
    /\ UNCHANGED <<other_vars, key, num_parts, key_parts, challenges, progress, current_user, session,
                   issued, completed_in, inflight>>

NextReveal ==
    \/ \E u \in RevealUsers, g \in GameTypes : MarkGameCompleted(u, g)
    \/ \E u \in RevealUsers : GetRevealedKey(u)

SpecReveal == InitReveal /\ [][NextReveal]_vars

----------------------------------------------------------------------------
(* Routes: the data the handlers work on *)

\* the most parts the key of a challenge of SpecSwitch splits into
MaxSharedParts == 2

\* the routes are followed on one browser session; the Flask session of
\* another browser is a separate dictionary that no handler of this one reads
Sessions == {"browser"}

SECRET12 == <<"S", "E", "C", "R", "E", "T", "1", "2">>

\* encrypted_message payloads the challenges table may hold
Messages ==
    { <<"A", ":">> \o SECRET12 \o <<":", "Z">>,     \* LAYER:KEY:CIPHERTEXT
      <<"X", ":", "K", "9", ":", "Z", ":", "Q">>,   \* a colon inside the ciphertext
      <<"P", "Q", "R">> }                           \* no delimiter

\* challenge ids the table holds, and ids a request may name
Challenges == {"aes_easy"}
RequestChallenges == Challenges \cup {"no_such_challenge"}

\* position of the first ':' of s at or after position from, 0 when there is none
FirstColon(s, from) ==
    LET idx == {i \in from .. Len(s) : s[i] = ":"}
    IN  IF idx = {} THEN 0 ELSE CHOOSE i \in idx : \A j \in idx : i <= j

UNKNOWNKEY == <<"U", "N", "K", "N", "O", "W", "N", "K", "E", "Y", "1", "2", "3", "4", "5", "6">>

\* the key taken with encrypted_msg.split(':', 1): everything after the first colon
get_challenge_key_onesplit(table, challenge_id) ==
    LET encrypted_msg == table[challenge_id].encrypted_message
        c1 == FirstColon(encrypted_msg, 1)
    IN  IF c1 # 0
        THEN SubSeq(encrypted_msg, c1 + 1, Len(encrypted_msg))
        ELSE IF encrypted_msg # <<>> THEN Slice(encrypted_msg, 0, 16) ELSE UNKNOWNKEY

\* get_challenge_key for a challenge row that exists and is active
get_challenge_key(table, challenge_id) ==
    LET encrypted_msg == table[challenge_id].encrypted_message
        c1 == FirstColon(encrypted_msg, 1)
        c2 == IF c1 = 0 THEN 0 ELSE FirstColon(encrypted_msg, c1 + 1)
    IN  IF c1 # 0
        THEN \* parts = encrypted_msg.split(':', 2); return parts[1]
             SubSeq(encrypted_msg, c1 + 1, IF c2 = 0 THEN Len(encrypted_msg) ELSE c2 - 1)
        ELSE IF encrypted_msg # <<>> THEN Slice(encrypted_msg, 0, 16) ELSE UNKNOWNKEY

\* db_session.query(Challenge).filter_by(id=challenge_id, is_active=True).first()
challenge_found(table, challenge_id) ==
    challenge_id \in DOMAIN table /\ table[challenge_id].is_active

\* the session entry f'{game}_{challenge_id}' is modelled as the pair <<game, challenge_id>>
SessionKeys == GameTypes \X RequestChallenges

Absent == [kind |-> "absent"]

\* session.get(key): a missing or falsy entry fails the handlers' `if not ...` test
falsy(entry) ==
    \/ entry.kind = "absent"
    \/ entry.kind = "key_part" /\ entry.key_part = <<>>

\* QUIZ_QUESTIONS[i]['answer'], in bank order
QUIZ_ANSWERS == <<0, 2, 1, 2, 1, 2, 0, 0, 1, 1>>

\* the questions of the bank that the model samples from
QuizBankSize == 3
QuizCount == 3
QuizBank == 1 .. QuizBankSize

\* random.sample(QUIZ_QUESTIONS, min(count, len(QUIZ_QUESTIONS))): the possible outcomes
get_quiz_questions(count) ==
    LET n == IF count < QuizBankSize THEN count ELSE QuizBankSize
    IN  {q \in [1 .. n -> QuizBank] : \A i, j \in 1 .. n : i # j => q[i] # q[j]}

\* KeyRevealManager.verify_quiz_answers: the number of correct answers
RECURSIVE quiz_correct(_, _, _)
quiz_correct(questions, answers, i) ==
    IF i > Len(questions) THEN 0
    ELSE (IF i <= Len(answers) /\ answers[i] = QUIZ_ANSWERS[questions[i]] THEN 1 ELSE 0)
         + quiz_correct(questions, answers, i + 1)

\* the count that leaves out the first question
verify_quiz_answers_skip(questions, answers) ==
    <<quiz_correct(questions, answers, 2), Len(questions)>>

verify_quiz_answers(questions, answers) ==
    <<quiz_correct(questions, answers, 1), Len(questions)>>

\* the score a quiz submission needs: `if correct >= 2`
QuizPassMark == 2

\* every question has four options, numbered from 0
LastOption == 3
OptionIndices == 0 .. LastOption

\* answers a client may submit: an option index for each question, or for
\* the first few only (verify_quiz_answers reads no answer beyond the questions)
SubmittedAnswers == UNION {[1 .. n -> OptionIndices] : n \in 0 .. QuizCount}

\* a few of them: none, and three orders of the answers 0, 2, 1
FewAnswers == { <<>>, <<0, 2, 1>>, <<2, 1, 0>>, <<1, 0, 2>> }

\* KeyRevealManager.verify_slider_solution
\* solution = list(range(1, 9)) + [0]
SLIDER_SOLUTION == [i \in 1 .. 8 |-> i] \o <<0>>

\* the verification that compares the tiles present, not their places
verify_slider_solution_anyorder(puzzle_state) ==
    /\ Len(puzzle_state) = Len(SLIDER_SOLUTION)
    /\ {puzzle_state[i] : i \in DOMAIN puzzle_state} = {SLIDER_SOLUTION[i] : i \in DOMAIN SLIDER_SOLUTION}

verify_slider_solution(puzzle_state) == puzzle_state = SLIDER_SOLUTION

\* tile arrangements a client may submit
SubmittedSliderStates ==
    { SLIDER_SOLUTION,
      <<0, 1, 2, 3, 4, 5, 6, 7, 8>>,      \* a rotation
      <<2, 1, 3, 4, 5, 6, 7, 8, 0>>,      \* a transposition
      <<1, 2, 3, 4, 5, 6, 7, 8>>,         \* the empty tile missing
      <<>> }

\* SCRAMBLE_WORDS, the words the model draws from
ScrambleWordCount == 2
SCRAMBLE_WORDS ==
    << <<"E", "N", "C", "R", "Y", "P", "T", "I", "O", "N">>,
       <<"D", "E", "C", "R", "Y", "P", "T", "I", "O", "N">>,
       <<"A", "L", "G", "O", "R", "I", "T", "H", "M">>,
       <<"C", "I", "P", "H", "E", "R", "T", "E", "X", "T">>,
       <<"P", "L", "A", "I", "N", "T", "E", "X", "T">>,
       <<"S", "Y", "M", "M", "E", "T", "R", "I", "C">>,
       <<"A", "S", "Y", "M", "M", "E", "T", "R", "I", "C">>,
       <<"H", "A", "S", "H", "I", "N", "G">>,
       <<"S", "E", "C", "U", "R", "I", "T", "Y">>,
       <<"C", "R", "Y", "P", "T", "O", "G", "R", "A", "P", "H", "Y">> >>

ScrambleWords ==
    {SCRAMBLE_WORDS[i] : i \in 1 .. (IF ScrambleWordCount < Len(SCRAMBLE_WORDS)
                                     THEN ScrambleWordCount ELSE Len(SCRAMBLE_WORDS))}

LowerToUpper ==
    [c \in {"e", "n", "c", "r", "y", "p", "t", "i", "o", "d"} |->
        CASE c = "e" -> "E" [] c = "n" -> "N" [] c = "c" -> "C" [] c = "r" -> "R"
          [] c = "y" -> "Y" [] c = "p" -> "P" [] c = "t" -> "T" [] c = "i" -> "I"
          [] c = "o" -> "O" [] c = "d" -> "D"]

\* str.upper()
Upper(str) ==
    [i \in DOMAIN str |-> IF str[i] \in DOMAIN LowerToUpper THEN LowerToUpper[str[i]] ELSE str[i]]

\* str.strip()
RECURSIVE Strip(_)
Strip(str) ==
    IF str = <<>> THEN str
    ELSE IF Head(str) = " " THEN Strip(Tail(str))
    ELSE IF str[Len(str)] = " " THEN Strip(SubSeq(str, 1, Len(str) - 1))
    ELSE str

\* KeyRevealManager.verify_scramble
verify_scramble(submitted, correct) == Strip(Upper(submitted)) = Upper(correct)

\* answers a client may submit to the scramble game
SubmittedWords ==
    ScrambleWords
    \cup { <<" ", "e", "n", "c", "r", "y", "p", "t", "i", "o", "n", " ">>,   \* lower case, padded
           <<"N", "E", "C", "R", "Y", "P", "T", "I", "O", "N">>,             \* two letters swapped
           <<>> }

----------------------------------------------------------------------------
(* Spec: the routes, one request at a time *)

Init ==
    /\ key = <<>>
    /\ num_parts = DefaultNumParts
    /\ key_parts = [called |-> FALSE, raised |-> FALSE, parts |-> <<>>]
    /\ challenges \in [Challenges -> [encrypted_message : Messages, is_active : {TRUE}]]
    /\ progress = EmptyBag
    /\ current_user = [s \in Sessions |-> NoUser]
    /\ session = [s \in Sessions |-> [k \in SessionKeys |-> Absent]]
    /\ response = None
    /\ issued = {}
    /\ completed_in = {}
    /\ inflight = {}
    /\ OtherInit

\* auth.login with the credentials of user u: login_user(user)
login(s, u) ==
    /\ current_user[s] = NoUser
    /\ current_user' = [current_user EXCEPT ![s] = u]
    /\ response' = "logged in"
    /\ UNCHANGED <<other_vars, key, num_parts, key_parts, challenges, progress, session,
                   issued, completed_in, inflight>>

\* auth.logout: logout_user() removes the user id from the session, nothing else
logout(s) ==
    /\ current_user[s] # NoUser
    /\ current_user' = [current_user EXCEPT ![s] = NoUser]
    /\ response' = "logged out"
    /\ UNCHANGED <<other_vars, key, num_parts, key_parts, challenges, progress, session,
                   issued, completed_in, inflight>>

\* the part of the challenge's key bound to a game type, as the generation
\* handlers look it up (<<>> when no part has that game type)
game_part(table, challenge_id, g) == part_for(get_challenge_key(table, challenge_id), g)

\* the generation handler without the `if not part` redirect
generate_unavailable(s, c, g, entries) ==
    LET u == current_user[s]
    IN  /\ u # NoUser
        /\ IF ~challenge_found(challenges, c)
           THEN /\ response' = "not found"
                /\ UNCHANGED <<session, issued>>
           ELSE IF g \in DOMAIN get_user_progress(progress, u, c)
                   /\ get_user_progress(progress, u, c)[g].completed
           THEN /\ response' = "already completed"
                /\ UNCHANGED <<session, issued>>
           ELSE /\ \E entry \in entries : session' = [session EXCEPT ![s][<<g, c>>] = entry]
                /\ response' = "rendered"
                /\ issued' = issued \cup {<<s, u, c, g>>}
        /\ UNCHANGED <<other_vars, key, num_parts, key_parts, challenges, progress, current_user,
                       completed_in, inflight>>

\* the common shape of the five generation handlers; entry is the puzzle state
\* the handler stores in the session
generate(s, c, g, entries) ==
    LET u == current_user[s]
    IN  /\ u # NoUser
        /\ IF ~challenge_found(challenges, c)
           THEN /\ response' = "not found"
                /\ UNCHANGED <<session, issued>>
           ELSE IF game_part(challenges, c, g) = <<>>
           THEN /\ response' = "not available"
                /\ UNCHANGED <<session, issued>>
           ELSE IF g \in DOMAIN get_user_progress(progress, u, c)
                   /\ get_user_progress(progress, u, c)[g].completed
           THEN /\ response' = "already completed"
                /\ UNCHANGED <<session, issued>>
           ELSE /\ \E entry \in entries : session' = [session EXCEPT ![s][<<g, c>>] = entry]
                /\ response' = "rendered"
                /\ issued' = issued \cup {<<s, u, c, g>>}
        /\ UNCHANGED <<other_vars, key, num_parts, key_parts, challenges, progress, current_user,
                       completed_in, inflight>>

\* the session entry holding the part with a padding character after it
key_part_entry_padded(v) == [kind |-> "key_part", key_part |-> v \o <<"=">>]

key_part_entry(v) == [kind |-> "key_part", key_part |-> v]

wheel_spin(s, c) ==
    generate(s, c, "wheel", {key_part_entry(game_part(challenges, c, "wheel"))})

quiz_game(s, c) ==
    generate(s, c, "quiz", {[kind      |-> "quiz",
                             questions |-> questions,
                             key_part  |-> game_part(challenges, c, "quiz")] :
                                questions \in get_quiz_questions(QuizCount)})

memory_game(s, c) ==
    generate(s, c, "memory", {key_part_entry(game_part(challenges, c, "memory"))})

slider_puzzle(s, c) ==
    generate(s, c, "slider", {key_part_entry(game_part(challenges, c, "slider"))})

scramble_game(s, c) ==
    generate(s, c, "scramble", {[kind     |-> "scramble",
                                 word     |-> word,
                                 key_part |-> game_part(challenges, c, "scramble")] :
                                    word \in ScrambleWords})

\* the completion handler that falls back on the challenge's key when the
\* session holds no puzzle state
complete_fallback(s, c, g, verified) ==
    LET u     == current_user[s]
        entry == session[s][<<g, c>>]
    IN  /\ u # NoUser
        /\ IF falsy(entry) /\ ~challenge_found(challenges, c)
           THEN /\ response' = "Invalid session"
                /\ UNCHANGED <<progress, session, completed_in>>
           ELSE IF falsy(entry) \/ verified
           THEN /\ progress' = mark_game_completed(progress, u, c, g,
                                   IF falsy(entry) THEN game_part(challenges, c, g)
                                   ELSE entry.key_part, 0)
                /\ session' = [session EXCEPT ![s][<<g, c>>] = Absent]
                /\ response' = "success"
                /\ completed_in' = completed_in \cup {<<s, u, c, g>>}
           ELSE /\ response' = "failure"
                /\ UNCHANGED <<progress, session, completed_in>>
        /\ UNCHANGED <<other_vars, key, num_parts, key_parts, challenges, current_user, issued, inflight>>

\* the completion handler that drops the puzzle state on a failed verification
complete_pop(s, c, g, verified) ==
    LET u     == current_user[s]
        entry == session[s][<<g, c>>]
    IN  /\ u # NoUser
        /\ IF falsy(entry)
           THEN /\ response' = "Invalid session"
                /\ UNCHANGED <<progress, session, completed_in>>
           ELSE IF verified
           THEN /\ progress' = mark_game_completed(progress, u, c, g, entry.key_part, 0)
                /\ session' = [session EXCEPT ![s][<<g, c>>] = Absent]
                /\ response' = "success"
                /\ completed_in' = completed_in \cup {<<s, u, c, g>>}
           ELSE /\ response' = "failure"
                /\ session' = [session EXCEPT ![s][<<g, c>>] = Absent]
                /\ UNCHANGED <<progress, completed_in>>
        /\ UNCHANGED <<other_vars, key, num_parts, key_parts, challenges, current_user, issued, inflight>>

\* the common shape of the five completion handlers; verified is the outcome
\* of the game's verification of the submission
complete(s, c, g, verified) ==
    LET u     == current_user[s]
        entry == session[s][<<g, c>>]
    IN  /\ u # NoUser
        /\ IF falsy(entry)
           THEN /\ response' = "Invalid session"
                /\ UNCHANGED <<progress, session, completed_in>>
           ELSE IF verified
           THEN /\ progress' = mark_game_completed(progress, u, c, g, entry.key_part, 0)
                /\ session' = [session EXCEPT ![s][<<g, c>>] = Absent]
                /\ response' = "success"
                /\ completed_in' = completed_in \cup {<<s, u, c, g>>}
           ELSE /\ response' = "failure"
                /\ UNCHANGED <<progress, session, completed_in>>
        /\ UNCHANGED <<other_vars, key, num_parts, key_parts, challenges, current_user, issued, inflight>>

wheel_complete(s, c) == complete(s, c, "wheel", TRUE)

quiz_submit(s, c, answers) ==
    LET quiz_data == session[s][<<"quiz", c>>]
    IN  complete(s, c, "quiz",
                 /\ ~falsy(quiz_data)
                 /\ verify_quiz_answers(quiz_data.questions, answers)[1] >= QuizPassMark)

memory_complete(s, c) == complete(s, c, "memory", TRUE)

slider_complete(s, c, puzzle_state) ==
    complete(s, c, "slider", verify_slider_solution(puzzle_state))

scramble_submit(s, c, answer) ==
    LET scramble_data == session[s][<<"scramble", c>>]
    IN  complete(s, c, "scramble",
                 /\ ~falsy(scramble_data)
                 /\ verify_scramble(answer, scramble_data.word))

\* the loop of minigames_hub over key_parts: a part whose game is completed
\* gets revealed = True and the revealed_part of the user's progress as value;
\* pick[g] is the revealed_part that get_user_progress reports for game g
hub_key_parts(parts, prog, pick) ==
    [i \in DOMAIN parts |->
        IF parts[i].game_type \in DOMAIN prog /\ prog[parts[i].game_type].completed
        THEN [parts[i] EXCEPT !.revealed = TRUE, !.value = pick[parts[i].game_type]]
        ELSE parts[i]]

\* GET /challenge/<challenge_id>: the hub page
minigames_hub(s, c) ==
    LET u == current_user[s]
    IN  /\ u # NoUser
        /\ IF ~challenge_found(challenges, c)
           THEN /\ response' = "not found"
                /\ UNCHANGED hub
           ELSE LET parts == default_parts(get_challenge_key(challenges, c))
                    prog  == get_user_progress(progress, u, c)
                IN  /\ \E pick \in [DOMAIN prog -> UNION {prog[g].revealed_part : g \in DOMAIN prog}] :
                           /\ \A g \in DOMAIN prog : pick[g] \in prog[g].revealed_part
                           /\ hub' = [rendered     |-> TRUE,
                                      user_id      |-> u,
                                      challenge_id |-> c,
                                      key_parts    |-> hub_key_parts(parts, prog, pick),
                                      revealed_key |-> get_revealed_key(progress, u, c,
                                                           hub_key_parts(parts, prog, pick))]
                    /\ response' = "hub"
        /\ UNCHANGED <<engine_vars_but_response, scramble, startup, flag_vars,
                       slider, payments, products>>

\* the minigame requests of a logged-in browser session
minigame_request ==
    \/ \E s \in Sessions, c \in RequestChallenges : wheel_spin(s, c)
    \/ \E s \in Sessions, c \in RequestChallenges : quiz_game(s, c)
    \/ \E s \in Sessions, c \in RequestChallenges : memory_game(s, c)
    \/ \E s \in Sessions, c \in RequestChallenges : slider_puzzle(s, c)
    \/ \E s \in Sessions, c \in RequestChallenges : scramble_game(s, c)
    \/ \E s \in Sessions, c \in RequestChallenges : wheel_complete(s, c)
    \/ \E s \in Sessions, c \in RequestChallenges, answers \in FewAnswers :
           quiz_submit(s, c, answers)
    \/ \E s \in Sessions, c \in RequestChallenges : memory_complete(s, c)
    \/ \E s \in Sessions, c \in RequestChallenges, puzzle_state \in SubmittedSliderStates :
           slider_complete(s, c, puzzle_state)
    \/ \E s \in Sessions, c \in RequestChallenges, answer \in SubmittedWords :
           scramble_submit(s, c, answer)

Next ==
    \/ \E s \in Sessions : login(s, SoloUser)
    \/ \E s \in Sessions : logout(s)
    \/ minigame_request

Spec == Init /\ [][Next]_vars

----------------------------------------------------------------------------
(* SpecSwitch: the routes with several users taking turns on one browser    *)
(* session, on challenges whose keys split into fewer than five parts.      *)

ShortMessages ==
    {m \in Messages :
        LET table == [c \in Challenges |-> [encrypted_message |-> m, is_active |-> TRUE]]
        IN  \A c \in Challenges :
                Len(default_parts(get_challenge_key(table, c))) <= MaxSharedParts}

InitSwitch ==
    /\ Init
    /\ \A c \in Challenges : challenges[c].encrypted_message \in ShortMessages

NextSwitch ==
    \/ \E s \in Sessions, u \in Users : login(s, u)
    \/ \E s \in Sessions : logout(s)
    \/ minigame_request

SpecSwitch == InitSwitch /\ [][NextSwitch]_vars

----------------------------------------------------------------------------
(* SpecShort: the routes of one user on challenges whose keys split into    *)
(* fewer than five parts.                                                    *)

SpecShort == InitSwitch /\ [][Next]_vars

----------------------------------------------------------------------------
(* SpecFail: the three games whose completion is verified on the server,    *)
(* with submissions that pass and submissions that fail.                     *)

NextFail ==
    \/ \E s \in Sessions : login(s, SoloUser)
    \/ \E s \in Sessions, c \in RequestChallenges : quiz_game(s, c)
    \/ \E s \in Sessions, c \in RequestChallenges : slider_puzzle(s, c)
    \/ \E s \in Sessions, c \in RequestChallenges : scramble_game(s, c)
    \/ \E s \in Sessions, c \in RequestChallenges, answers \in FewAnswers :
           quiz_submit(s, c, answers)
    \/ \E s \in Sessions, c \in RequestChallenges, puzzle_state \in SubmittedSliderStates :
           slider_complete(s, c, puzzle_state)
    \/ \E s \in Sessions, c \in RequestChallenges, answer \in SubmittedWords :
           scramble_submit(s, c, answer)

SpecFail == Init /\ [][NextFail]_vars

----------------------------------------------------------------------------
(* SpecIsolate: the manager called for two users and two challenges with    *)
(* different keys, for the game types the routes can complete (those with a *)
(* part of the key).                                                         *)

IsolateUsers == {SoloUser, SoloUser + 1}

IsolateChallenges == {"aes_easy", "vigenere_medium"}

IsolateTable ==
    [c \in IsolateChallenges |->
        [encrypted_message |-> IF c = "aes_easy"
                               THEN <<"X", ":", "K", "9", ":", "Z", ":", "Q">>
                               ELSE <<"P", "Q", "R">>,
         is_active         |-> TRUE]]

InitIsolate ==
    /\ key = <<>>
    /\ num_parts = DefaultNumParts
    /\ key_parts = [called |-> FALSE, raised |-> FALSE, parts |-> <<>>]
    /\ challenges = IsolateTable
    /\ progress = EmptyBag
    /\ current_user = <<>>
    /\ session = <<>>
    /\ response = [op |-> None]
    /\ issued = {}
    /\ completed_in = {}
    /\ inflight = {}
    /\ OtherInit

\* a completion route's call for user u:
\* key_reveal_manager.mark_game_completed(u, challenge_id, g, key_part)
MarkGameCompletedOn(u, c, g) ==
    /\ game_part(challenges, c, g) # <<>>
    /\ progress' = mark_game_completed(progress, u, c, g, game_part(challenges, c, g), 0)
    /\ response' = [op |-> "mark_game_completed", args |-> <<u, c, g>>]
    /\ UNCHANGED <<other_vars, key, num_parts, key_parts, challenges, current_user, session,
                   issued, completed_in, inflight>>

\* the hub's call: key_reveal_manager.get_revealed_key(u, challenge_id, key_parts)
GetRevealedKeyOn(u, c) ==
    /\ response' = [op     |-> "get_revealed_key",
                    args   |-> <<u, c>>,
                    result |-> get_revealed_key(progress, u, c,
                                   default_parts(get_challenge_key(challenges, c)))]
    /\ UNCHANGED <<other_vars, key, num_parts, key_parts, challenges, progress, current_user,
                   session, issued, completed_in, inflight>>

NextIsolate ==
    \/ \E u \in IsolateUsers, c \in IsolateChallenges, g \in GameTypes : MarkGameCompletedOn(u, c, g)
    \/ \E u \in IsolateUsers, c \in IsolateChallenges : GetRevealedKeyOn(u, c)

SpecIsolate == InitIsolate /\ [][NextIsolate]_vars

----------------------------------------------------------------------------
(* SpecHub: the hub page of one user between the requests of two of the    *)
(* games.                                                                    *)

NextHub ==
    \/ \E s \in Sessions : login(s, SoloUser)
    \/ \E s \in Sessions : logout(s)
    \/ \E s \in Sessions, c \in RequestChallenges : minigames_hub(s, c)
    \/ \E s \in Sessions, c \in RequestChallenges : wheel_spin(s, c)
    \/ \E s \in Sessions, c \in RequestChallenges : wheel_complete(s, c)
    \/ \E s \in Sessions, c \in RequestChallenges : memory_game(s, c)
    \/ \E s \in Sessions, c \in RequestChallenges : memory_complete(s, c)

SpecHub == Init /\ [][NextHub]_vars

----------------------------------------------------------------------------
(* SpecQuiz: the quiz routes of one user, with every answer list a client    *)
(* may submit.                                                               *)

NextQuiz ==
    \/ \E s \in Sessions : login(s, SoloUser)
    \/ \E s \in Sessions : logout(s)
    \/ \E s \in Sessions, c \in RequestChallenges : quiz_game(s, c)
    \/ \E s \in Sessions, c \in RequestChallenges, answers \in SubmittedAnswers :
           quiz_submit(s, c, answers)

SpecQuiz == Init /\ [][NextQuiz]_vars

----------------------------------------------------------------------------
(* SpecSlider: the slider game, on the solved arrangement and the            *)
(* arrangements next to it                                                   *)

\* arr turned by k places, and arr with the tiles at places a and b exchanged
Rotation(arr, k) == [i \in DOMAIN arr |-> arr[((i - 1 + k) % Len(arr)) + 1]]
Transposition(arr, a, b) ==
    [i \in DOMAIN arr |-> IF i = a THEN arr[b] ELSE IF i = b THEN arr[a] ELSE arr[i]]

\* the solved arrangement, its 8 rotations, its 36 transpositions, the
\* transpositions of its first rotation, and the lists that are no arrangement
SliderArrangements ==
    {Rotation(SLIDER_SOLUTION, k) : k \in 0 .. 8}
    \cup {Transposition(SLIDER_SOLUTION, a, b) : a, b \in DOMAIN SLIDER_SOLUTION}
    \cup {Transposition(Rotation(SLIDER_SOLUTION, 1), a, b) : a, b \in DOMAIN SLIDER_SOLUTION}
    \cup SubmittedSliderStates

NextSlider ==
    \/ \E s \in Sessions, u \in Users : login(s, u)
    \/ \E s \in Sessions : logout(s)
    \/ \E s \in Sessions, c \in RequestChallenges : slider_puzzle(s, c)
    \/ \E s \in Sessions, c \in RequestChallenges, puzzle_state \in SliderArrangements :
           slider_complete(s, c, puzzle_state)

SpecSlider == Init /\ [][NextSlider]_vars

----------------------------------------------------------------------------
(* SpecScramble: a call of generate_scramble, statement by statement.        *)
(* random.shuffle may leave any arrangement of the list; the model draws     *)
(* from the list itself, its transpositions, its rotations and its reverse.  *)

Shuffles(x) ==
    {Transposition(x, a, b) : a, b \in DOMAIN x}
    \cup {Rotation(x, k) : k \in 0 .. Len(x) - 1}
    \cup {[i \in DOMAIN x |-> x[Len(x) + 1 - i]]}

InitScramble ==
    /\ key = <<>>
    /\ num_parts = DefaultNumParts
    /\ key_parts = [called |-> FALSE, raised |-> FALSE, parts |-> <<>>]
    /\ challenges = <<>>
    /\ progress = EmptyBag
    /\ current_user = <<>>
    /\ session = <<>>
    /\ response = None
    /\ issued = {}
    /\ completed_in = {}
    /\ inflight = {}
    /\ OtherInit

\* word, hint = random.choice(SCRAMBLE_WORDS); scrambled = list(word)
scramble_choice ==
    /\ scramble.pc \in {"idle", "returned"}
    /\ \E i \in DOMAIN SCRAMBLE_WORDS :
           scramble' = [pc |-> "shuffle", word |-> SCRAMBLE_WORDS[i], scrambled |-> SCRAMBLE_WORDS[i]]
    /\ UNCHANGED <<engine_vars, startup, flag_vars, more_vars>>

\* random.shuffle(scrambled), before the loop and in its body
scramble_shuffle ==
    /\ scramble.pc = "shuffle"
    /\ \E arrangement \in Shuffles(scramble.scrambled) :
           scramble' = [scramble EXCEPT !.pc = "while", !.scrambled = arrangement]
    /\ UNCHANGED <<engine_vars, startup, flag_vars, more_vars>>

\* the call that returns after the first shuffle, whatever it left
scramble_while_absent ==
    /\ scramble.pc = "while"
    /\ scramble' = [scramble EXCEPT !.pc = "returned"]
    /\ UNCHANGED <<engine_vars, startup, flag_vars, more_vars>>

\* while ''.join(scrambled) == word: shuffle again; otherwise return
scramble_while ==
    /\ scramble.pc = "while"
    /\ scramble' = [scramble EXCEPT !.pc = IF scramble.scrambled = scramble.word
                                            THEN "shuffle" ELSE "returned"]
    /\ UNCHANGED <<engine_vars, startup, flag_vars, more_vars>>

NextScramble ==
    \/ scramble_choice
    \/ scramble_shuffle
    \/ scramble_while

SpecScramble == InitScramble /\ [][NextScramble]_vars

----------------------------------------------------------------------------
(* SpecStartup: the default challenge initialization of app.py, one          *)
(* create_challenge call at a time, on a store that may hold any of the      *)
(* default challenges already                                                *)

\* the ids of the three create_challenge calls, in their order
DefaultChallenges == <<"aes_easy", "vigenere_medium", "rsa_hard">>

DefaultIds == {DefaultChallenges[i] : i \in DOMAIN DefaultChallenges}

ChallengeRows == [encrypted_message : Messages, is_active : BOOLEAN]

\* challenge_manager.create_challenge(id, ...) raises ValueError: the id exists
create_challenge_raises(table, id) == id \in DOMAIN table

\* the store after challenge_manager.create_challenge(id, ...) has added its row
create_challenge(table, id, encrypted_message) ==
    [c \in DOMAIN table \cup {id} |->
        IF c = id THEN [encrypted_message |-> encrypted_message, is_active |-> TRUE]
        ELSE table[c]]

InitStartup ==
    /\ key = <<>>
    /\ num_parts = DefaultNumParts
    /\ key_parts = [called |-> FALSE, raised |-> FALSE, parts |-> <<>>]
    /\ \E existing \in SUBSET DefaultIds : challenges \in [existing -> ChallengeRows]
    /\ progress = EmptyBag
    /\ current_user = <<>>
    /\ session = <<>>
    /\ response = None
    /\ issued = {}
    /\ completed_in = {}
    /\ inflight = {}
    /\ MoreInit
    /\ scramble = [pc |-> "idle"]
    /\ startup = [pc |-> "try", next |-> 1, error |-> FALSE]
    /\ now = 0
    /\ requests = <<>>
    /\ solved = <<>>
    /\ buyer = <<>>
    /\ seller = <<>>

\* the next create_challenge call of the try block: a ValueError leaves the
\* block for its except clause, which prints and goes on with the boot
startup_create ==
    /\ startup.pc = "try"
    /\ LET id == DefaultChallenges[startup.next]
       IN  IF create_challenge_raises(challenges, id)
           THEN /\ startup' = [startup EXCEPT !.pc = "booted", !.error = TRUE]
                /\ UNCHANGED challenges
           ELSE /\ \E encrypted_message \in Messages :
                       challenges' = create_challenge(challenges, id, encrypted_message)
                /\ startup' = [startup EXCEPT
                                  !.pc = IF startup.next = Len(DefaultChallenges)
                                         THEN "booted" ELSE "try",
                                  !.next = IF startup.next = Len(DefaultChallenges)
                                           THEN startup.next ELSE startup.next + 1]
    /\ UNCHANGED <<key, num_parts, key_parts, progress, current_user, session, response,
                   issued, completed_in, inflight, scramble, flag_vars, more_vars>>

NextStartup == startup_create

SpecStartup == InitStartup /\ [][NextStartup]_vars

----------------------------------------------------------------------------
(* SpecDict: Challenge.to_dict on the rows of the challenges table *)

Flags == {"FLAG{one}", "FLAG{two}"}

\* rows of the challenges table, with every column of the model class
FullChallengeRows ==
    [id                : {"aes_easy"},
     type              : {"aes"},
     difficulty        : {"easy", "medium", "hard"},
     description       : {"Decrypt the message"},
     points            : {"100"},
     hints             : {<<"hint 1", "hint 2">>},
     encrypted_message : Messages,
     flag              : Flags,
     is_active         : BOOLEAN,
     files             : {<<>>}]

\* Challenge.to_dict(exclude_flag): the parameter is not read
to_dict(self, exclude_flag) ==
    [id                |-> self.id,
     type              |-> self.type,
     difficulty        |-> self.difficulty,
     description       |-> self.description,
     points            |-> self.points,
     hints             |-> self.hints,
     encrypted_message |-> self.encrypted_message,
     flag              |-> self.flag,
     is_active         |-> self.is_active,
     files             |-> self.files]

InitDict ==
    /\ key = <<>>
    /\ num_parts = DefaultNumParts
    /\ key_parts = [called |-> FALSE, raised |-> FALSE, parts |-> <<>>]
    /\ challenges \in [Challenges -> FullChallengeRows]
    /\ progress = EmptyBag
    /\ current_user = <<>>
    /\ session = <<>>
    /\ response = [op |-> None]
    /\ issued = {}
    /\ completed_in = {}
    /\ inflight = {}
    /\ OtherInit

\* a call challenge.to_dict(exclude_flag) on the row of challenge_id
ToDict(challenge_id, exclude_flag) ==
    /\ response' = [op           |-> "to_dict",
                    challenge_id |-> challenge_id,
                    exclude_flag |-> exclude_flag,
                    result       |-> to_dict(challenges[challenge_id], exclude_flag)]
    /\ UNCHANGED <<other_vars, key, num_parts, key_parts, challenges, progress, current_user,
                   session, issued, completed_in, inflight>>

NextDict == \E challenge_id \in Challenges, exclude_flag \in BOOLEAN : ToDict(challenge_id, exclude_flag)

SpecDict == InitDict /\ [][NextDict]_vars

----------------------------------------------------------------------------
(* Flag submission: POST /challenge/<challenge_id> of app.py, behind the     *)
(* rate limiter, and the buyer and seller gates of routes/marketplace.py     *)

\* the challenges startup creates, with their difficulty
Difficulty ==
    [c \in DefaultIds |-> CASE c = "aes_easy" -> "easy"
                           [] c = "vigenere_medium" -> "medium"
                           [] c = "rsa_hard" -> "hard"]

FlagOf ==
    [c \in DefaultIds |-> CASE c = "aes_easy" -> "FLAG{aes}"
                           [] c = "vigenere_medium" -> "FLAG{vigenere}"
                           [] c = "rsa_hard" -> "FLAG{rsa}"]

\* RATE_LIMIT_WINDOW and RATE_LIMIT_MAX_REQUESTS of config/security.py
RATE_LIMIT_WINDOW == 60
RATE_LIMIT_MAX_REQUESTS == 10

\* the submissions of user u that the limiter has let through within the
\* window that ends at time t
recent_requests(table, u, t) ==
    SelectSeq(table[u], LAMBDA at : t - at < RATE_LIMIT_WINDOW)

\* the limiter turns the request down: the window's budget is used up
rate_limited(table, u, t) ==
    Len(recent_requests(table, u, t)) >= RATE_LIMIT_MAX_REQUESTS

\* the limiter's table after it has let a request of u through at time t
rate_limit_record(table, u, t) ==
    [table EXCEPT ![u] = Append(recent_requests(table, u, t), t)]

\* challenge_manager.submit_flag: exact comparison with the stored flag,
\* a negative result for an unknown challenge id
flag_accepted(challenge_id, flag) ==
    challenge_id \in DOMAIN FlagOf /\ flag = FlagOf[challenge_id]

\* Buyer.add_solved_challenge / Seller.add_solved_challenge on the row of u
add_solved_challenge(table, u, challenge_id) ==
    [table EXCEPT ![u].solved_challenges = @ \cup {challenge_id}]

\* len(row.get_solved_challenges()) for the row of u
solved_count(table, u) == Cardinality(table[u].solved_challenges)

required_challenges == 3
required_hard_challenges == 5

\* buyer_required lets the request of user u through to the page
buyer_required(u) ==
    /\ u # NoUser
    /\ u \in DOMAIN buyer
    /\ ~(solved_count(buyer, u) < required_challenges)

\* seller_required lets the request of user u through to the page
seller_required(u) ==
    /\ u # NoUser
    /\ u \in DOMAIN seller
    /\ ~(solved_count(seller, u) < required_hard_challenges)

\* values of the 'mode' query parameter ("none": the parameter is absent)
Modes == {"none", "buyer", "seller"}

InitFlag ==
    /\ key = <<>>
    /\ num_parts = DefaultNumParts
    /\ key_parts = [called |-> FALSE, raised |-> FALSE, parts |-> <<>>]
    /\ challenges \in [DefaultIds -> [encrypted_message : {SECRET12}, is_active : {TRUE}]]
    /\ progress = EmptyBag
    /\ current_user = [s \in Sessions |-> NoUser]
    /\ session = [s \in Sessions |-> [k \in SessionKeys |-> Absent]]
    /\ response = None
    /\ issued = {}
    /\ completed_in = {}
    /\ inflight = {}
    /\ MoreInit
    /\ scramble = [pc |-> "idle"]
    /\ startup = [pc |-> "idle"]
    /\ now = 0
    /\ requests = [u \in Users |-> <<>>]
    /\ solved = [u \in Users |-> {}]
    /\ \E profiles \in SUBSET {SoloUser} : buyer = [u \in profiles |-> [solved_challenges |-> {}]]
    /\ \E profiles \in SUBSET {SoloUser} : seller = [u \in profiles |-> [solved_challenges |-> {}]]

\* the body of submit_flag from the call of challenge_manager.submit_flag on:
\* the solved sets after a request of user u that carries a flag
flag_effects(u, challenge_id, mode, flag) ==
    IF flag # "" /\ flag_accepted(challenge_id, flag)
    THEN /\ solved' = [solved EXCEPT ![u] = @ \cup {challenge_id}]
         /\ buyer' = IF mode = "buyer" /\ u \in DOMAIN buyer
                     THEN add_solved_challenge(buyer, u, challenge_id) ELSE buyer
         /\ seller' = IF mode = "seller" /\ u \in DOMAIN seller
                      THEN add_solved_challenge(seller, u, challenge_id) ELSE seller
    ELSE UNCHANGED <<solved, buyer, seller>>

\* where submit_flag redirects to
flag_response(u, challenge_id, mode, flag) ==
    IF flag = "" THEN "provide a flag"
    ELSE IF ~flag_accepted(challenge_id, flag) THEN "wrong flag"
    ELSE IF mode = "buyer" /\ u \in DOMAIN buyer /\ solved_count(buyer', u) >= 3
    THEN "view_products"
    ELSE IF mode = "seller" /\ u \in DOMAIN seller /\ solved_count(seller', u) >= 5
    THEN "create_product"
    ELSE "solved"

\* the route whose limiter answers after the handler has run
submit_flag_late_limit(s, challenge_id, mode, flag) ==
    LET u == current_user[s]
    IN  /\ u # NoUser
        /\ flag_effects(u, challenge_id, mode, flag)
        /\ IF rate_limited(requests, u, now)
           THEN /\ response' = "rate limited"
                /\ UNCHANGED requests
           ELSE /\ requests' = rate_limit_record(requests, u, now)
                /\ response' = flag_response(u, challenge_id, mode, flag)
        /\ UNCHANGED <<engine_vars_but_response, scramble, startup, now, more_vars>>

\* POST /challenge/<challenge_id>: @rate_limit, then @login_required and the handler
submit_flag(s, challenge_id, mode, flag) ==
    LET u == current_user[s]
    IN  /\ u # NoUser
        /\ IF rate_limited(requests, u, now)
           THEN /\ response' = "rate limited"
                /\ UNCHANGED <<requests, solved, buyer, seller>>
           ELSE /\ requests' = rate_limit_record(requests, u, now)
                /\ flag_effects(u, challenge_id, mode, flag)
                /\ response' = flag_response(u, challenge_id, mode, flag)
        /\ UNCHANGED <<engine_vars_but_response, scramble, startup, now, more_vars>>

\* GET of a page behind @buyer_required
view_products(s) ==
    /\ current_user[s] # NoUser
    /\ response' = IF buyer_required(current_user[s]) THEN "products" ELSE "buyer_verification"
    /\ UNCHANGED <<engine_vars_but_response, other_vars>>

\* GET of a page behind @seller_required
create_product(s) ==
    /\ current_user[s] # NoUser
    /\ response' = IF seller_required(current_user[s]) THEN "product form" ELSE "seller_verification"
    /\ UNCHANGED <<engine_vars_but_response, other_vars>>

\* time passes
TickSeconds == 20
MaxTime == 80
tick ==
    /\ now + TickSeconds <= MaxTime
    /\ now' = now + TickSeconds
    /\ UNCHANGED <<engine_vars, scramble, startup, requests, solved, buyer, seller, more_vars>>

(* SpecLimit: submissions of one user for one challenge as time passes *)
NextLimit ==
    \/ \E s \in Sessions : login(s, SoloUser)
    \/ \E s \in Sessions, challenge_id \in {"aes_easy", "no_such_challenge"},
          flag \in {"FLAG{aes}", "FLAG{wrong}", ""} :
           submit_flag(s, challenge_id, "none", flag)
    \/ tick

SpecLimit == InitFlag /\ [][NextLimit]_vars

(* SpecRoles: submissions under every mode, and the gated pages *)
NextRoles ==
    \/ \E s \in Sessions : login(s, SoloUser)
    \/ \E s \in Sessions, challenge_id \in DefaultIds, mode \in Modes :
           \E flag \in {FlagOf[challenge_id], "FLAG{wrong}"} :
               submit_flag(s, challenge_id, mode, flag)
    \/ \E s \in Sessions : view_products(s)
    \/ \E s \in Sessions : create_product(s)

SpecRoles == InitFlag /\ [][NextRoles]_vars

----------------------------------------------------------------------------
(* SpecKey: get_challenge_key on the payloads a challenge row may hold *)

MaxPayloadLen == 4

LONG20 == <<"0", "1", "2", "3", "4", "5", "6", "7", "8", "9",
            "a", "b", "c", "d", "e", "f", "g", "h", "i", "j">>

\* payloads: every string of up to MaxPayloadLen characters over a letter and
\* the delimiter, and long ones without a delimiter, of 16, 17 and 20
\* characters, and with the first delimiter after the 16th character
Payloads ==
    SeqsUpTo({"k", ":"}, MaxPayloadLen)
    \cup { SubSeq(LONG20, 1, 16), SubSeq(LONG20, 1, 17), LONG20,
           LONG20 \o <<":", "K", "9", ":", "Z">> }

InitKey ==
    /\ key = <<>>
    /\ num_parts = DefaultNumParts
    /\ key_parts = [called |-> FALSE, raised |-> FALSE, parts |-> <<>>]
    /\ challenges \in [Challenges -> [encrypted_message : Payloads, is_active : BOOLEAN]]
    /\ progress = EmptyBag
    /\ current_user = <<>>
    /\ session = <<>>
    /\ response = [op |-> None]
    /\ issued = {}
    /\ completed_in = {}
    /\ inflight = {}
    /\ OtherInit

\* a call get_challenge_key(challenge_id); found is FALSE when it returns None
GetChallengeKey(challenge_id) ==
    /\ response' = [op           |-> "get_challenge_key",
                    challenge_id |-> challenge_id,
                    found        |-> challenge_found(challenges, challenge_id),
                    result       |-> IF challenge_found(challenges, challenge_id)
                                     THEN get_challenge_key(challenges, challenge_id)
                                     ELSE <<>>]
    /\ UNCHANGED <<other_vars, key, num_parts, key_parts, challenges, progress, current_user,
                   session, issued, completed_in, inflight>>

NextKey == \E challenge_id \in RequestChallenges : GetChallengeKey(challenge_id)

SpecKey == InitKey /\ [][NextKey]_vars

----------------------------------------------------------------------------
(* SpecConc: completion requests served concurrently.  A completion handler  *)
(* runs in two steps, separated by the database round trip between the       *)
(* existence query and the insert of mark_game_completed.                    *)

MaxInflight == 2
Slots == 1 .. MaxInflight

Idle == [busy |-> FALSE]

InitConc == InitSwitch

\* the slots of SpecConc's requests in flight, as a set of <<slot, request>>
BusySlots == {r[1] : r \in inflight}

\* first step of a completion handler: read the session, verify the submission,
\* and run MinigameProgress.has_completed
begin_complete(s, c, g, verified) ==
    LET u     == current_user[s]
        entry == session[s][<<g, c>>]
    IN  /\ u # NoUser
        /\ IF falsy(entry)
           THEN /\ response' = "Invalid session"
                /\ UNCHANGED inflight
           ELSE IF verified
           THEN /\ \E slot \in Slots \ BusySlots :
                      inflight' = inflight \cup
                          {<<slot, [session_id    |-> s,
                                    user_id       |-> u,
                                    challenge_id  |-> c,
                                    game_type     |-> g,
                                    key_part      |-> entry.key_part,
                                    has_completed |-> has_completed(progress, u, c, g)]>>}
                /\ UNCHANGED response
           ELSE /\ response' = "failure"
                /\ UNCHANGED inflight
        /\ UNCHANGED <<other_vars, key, num_parts, key_parts, challenges, progress, current_user,
                       session, issued, completed_in>>

\* second step: MinigameProgress.mark_completed unless the query found a row,
\* then session.pop and the response
finish_complete(r) ==
    LET req == r[2]
    IN  /\ r \in inflight
        /\ progress' = IF ~req.has_completed
                       THEN mark_completed(progress, req.user_id, req.challenge_id,
                                           req.game_type, 0, req.key_part)
                       ELSE progress
        /\ session' = [session EXCEPT ![req.session_id][<<req.game_type, req.challenge_id>>] = Absent]
        /\ response' = "success"
        /\ completed_in' = completed_in \cup {<<req.session_id, req.user_id, req.challenge_id, req.game_type>>}
        /\ inflight' = inflight \ {r}
        /\ UNCHANGED <<other_vars, key, num_parts, key_parts, challenges, current_user, issued>>

begin_request ==
    \/ \E s \in Sessions, c \in Challenges : begin_complete(s, c, "wheel", TRUE)
    \/ \E s \in Sessions, c \in Challenges, answers \in FewAnswers :
           begin_complete(s, c, "quiz",
               /\ ~falsy(session[s][<<"quiz", c>>])
               /\ verify_quiz_answers(session[s][<<"quiz", c>>].questions, answers)[1]
                      >= QuizPassMark)
    \/ \E s \in Sessions, c \in Challenges : begin_complete(s, c, "memory", TRUE)
    \/ \E s \in Sessions, c \in Challenges, puzzle_state \in SubmittedSliderStates :
           begin_complete(s, c, "slider", verify_slider_solution(puzzle_state))
    \/ \E s \in Sessions, c \in Challenges, answer \in SubmittedWords :
           begin_complete(s, c, "scramble",
               /\ ~falsy(session[s][<<"scramble", c>>])
               /\ verify_scramble(answer, session[s][<<"scramble", c>>].word))

generation_request ==
    \/ \E s \in Sessions, c \in Challenges : wheel_spin(s, c)
    \/ \E s \in Sessions, c \in Challenges : quiz_game(s, c)
    \/ \E s \in Sessions, c \in Challenges : memory_game(s, c)
    \/ \E s \in Sessions, c \in Challenges : slider_puzzle(s, c)
    \/ \E s \in Sessions, c \in Challenges : scramble_game(s, c)

NextConc ==
    \/ \E s \in Sessions : login(s, SoloUser)
    \/ generation_request
    \/ begin_request
    \/ \E r \in inflight : finish_complete(r)

SpecConc == InitConc /\ [][NextConc]_vars

----------------------------------------------------------------------------
(* SpecPuzzle: one call of generate_slider_puzzle, move by move.            *)

\* the number of iterations of the loop.  The source has range(100); a walk
\* of that length cannot be enumerated, and one of SliderMoves moves takes
\* the empty tile to every place of the grid
SliderMoves == 20

\* the key part the slider route passes on
SliderKeyParts == {<<"E", "T">>}

\* the moves list with the left move allowed from every place but the first
slider_moves_wrap(empty_idx) ==
    (IF empty_idx >= 3 THEN <<empty_idx - 3>> ELSE <<>>)
    \o (IF empty_idx < 6 THEN <<empty_idx + 3>> ELSE <<>>)
    \o (IF empty_idx > 0 THEN <<empty_idx - 1>> ELSE <<>>)
    \o (IF empty_idx % 3 < 2 THEN <<empty_idx + 1>> ELSE <<>>)

\* the list `moves` of one iteration: the places (0-based) the empty tile
\* may be exchanged with
slider_moves(empty_idx) ==
    (IF empty_idx >= 3 THEN <<empty_idx - 3>> ELSE <<>>)         \* Up
    \o (IF empty_idx < 6 THEN <<empty_idx + 3>> ELSE <<>>)       \* Down
    \o (IF empty_idx % 3 > 0 THEN <<empty_idx - 1>> ELSE <<>>)   \* Left
    \o (IF empty_idx % 3 < 2 THEN <<empty_idx + 1>> ELSE <<>>)   \* Right

\* puzzle.index(0), 0-based
index_of_empty(puzzle) == (CHOOSE i \in DOMAIN puzzle : puzzle[i] = 0) - 1

InitPuzzle ==
    /\ key = <<>>
    /\ num_parts = DefaultNumParts
    /\ key_parts = [called |-> FALSE, raised |-> FALSE, parts |-> <<>>]
    /\ challenges = <<>>
    /\ progress = EmptyBag
    /\ current_user = <<>>
    /\ session = <<>>
    /\ response = [op |-> None]
    /\ issued = {}
    /\ completed_in = {}
    /\ inflight = {}
    /\ OtherInit

\* generate_slider_puzzle(key_part) up to the loop: puzzle = solution.copy()
slider_start(key_part) ==
    /\ slider.pc = "idle"
    /\ slider' = [pc       |-> "loop",
                  solution |-> SLIDER_SOLUTION,
                  puzzle   |-> SLIDER_SOLUTION,
                  key_part |-> key_part,
                  i        |-> 0]
    /\ UNCHANGED <<engine_vars, scramble, startup, flag_vars, hub, payments, products>>

\* one iteration of the loop: swap_idx = random.choice(moves), then the swap
slider_move ==
    /\ slider.pc = "loop"
    /\ slider.i < SliderMoves
    /\ LET empty_idx == index_of_empty(slider.puzzle)
           moves     == slider_moves(empty_idx)
       IN  \E m \in DOMAIN moves :
               LET swap_idx == moves[m]
               IN  slider' = [slider EXCEPT
                                 !.puzzle = [slider.puzzle EXCEPT
                                                ![empty_idx + 1] = slider.puzzle[swap_idx + 1],
                                                ![swap_idx + 1]  = slider.puzzle[empty_idx + 1]],
                                 !.i = @ + 1]
    /\ UNCHANGED <<engine_vars, scramble, startup, flag_vars, hub, payments, products>>

\* the loop is over: return {'puzzle': ..., 'solution': ..., 'key_part': ...}
slider_return ==
    /\ slider.pc = "loop"
    /\ slider.i = SliderMoves
    /\ slider' = [slider EXCEPT !.pc = "returned"]
    /\ response' = [op     |-> "generate_slider_puzzle",
                    result |-> [puzzle   |-> slider.puzzle,
                                solution |-> slider.solution,
                                key_part |-> slider.key_part]]
    /\ UNCHANGED <<engine_vars_but_response, scramble, startup, flag_vars, hub, payments, products>>

NextPuzzle ==
    \/ \E key_part \in SliderKeyParts : slider_start(key_part)
    \/ slider_move
    \/ slider_return

SpecPuzzle == InitPuzzle /\ [][NextPuzzle]_vars

----------------------------------------------------------------------------
(* SpecMemory: one call of generate_memory_cards, on a key part and with a  *)
(* sample of decoy letters drawn at the call.                                *)

MaxKeyPartLen == 2

\* characters of the key parts the call is made with
KeyPartAlphabet == {"E", "c", "7"}

MemoryKeyParts == SeqsUpTo(KeyPartAlphabet, MaxKeyPartLen)

\* string.ascii_uppercase
ascii_uppercase ==
    <<"A", "B", "C", "D", "E", "F", "G", "H", "I", "J", "K", "L", "M",
      "N", "O", "P", "Q", "R", "S", "T", "U", "V", "W", "X", "Y", "Z">>

\* the lists random.sample(population, k) can return: k places of the
\* population, no place taken twice, in any order (k is at most 3 here)
random_sample(population, k) ==
    LET places == DOMAIN population
    IN  IF k = 0 THEN {<<>>}
        ELSE IF k = 1 THEN {<<population[a]>> : a \in places}
        ELSE IF k = 2 THEN {<<population[a], population[b]>> :
                               a \in places, b \in places} \ {<<population[a], population[a]>> : a \in places}
        ELSE {s \in {<<population[a], population[b], population[c]>> :
                        a \in places, b \in places, c \in places} :
                 s[1] # s[2] /\ s[1] # s[3] /\ s[2] # s[3]}

\* min(3, 26 - len(chars))
decoy_count(chars) ==
    IF Len(ascii_uppercase) - Len(chars) < 3 THEN Len(ascii_uppercase) - Len(chars) ELSE 3

\* the two cards of a pair: {'id': f'{idx}a', ...} and {'id': f'{idx}b', ...};
\* is_decoy is card.get('is_decoy', False)
card_pair(idx, char, is_decoy) ==
    {[id |-> <<idx, half>>, value |-> char, pair_id |-> idx, is_decoy |-> is_decoy] :
        half \in {"a", "b"}}

\* generate_memory_cards with the sample random.sample returned.  The list is
\* returned after random.shuffle, in any order: it is the set of its cards
generate_memory_cards(key_part, decoys) ==
    LET chars == Upper(key_part)
    IN  UNION {card_pair(i - 1, chars[i], FALSE) : i \in DOMAIN chars}
        \cup UNION {card_pair(Len(chars) + i - 1, decoys[i], TRUE) : i \in DOMAIN decoys}

InitMemory ==
    /\ key = <<>>
    /\ num_parts = DefaultNumParts
    /\ key_parts = [called |-> FALSE, raised |-> FALSE, parts |-> <<>>]
    /\ challenges = <<>>
    /\ progress = EmptyBag
    /\ current_user = <<>>
    /\ session = <<>>
    /\ response = [op |-> None]
    /\ issued = {}
    /\ completed_in = {}
    /\ inflight = {}
    /\ OtherInit

GenerateMemoryCards(key_part) ==
    /\ response.op = None
    /\ \E decoys \in random_sample(ascii_uppercase, decoy_count(Upper(key_part))) :
           response' = [op       |-> "generate_memory_cards",
                        key_part |-> key_part,
                        cards    |-> generate_memory_cards(key_part, decoys)]
    /\ UNCHANGED <<engine_vars_but_response, other_vars>>

NextMemory == \E key_part \in MemoryKeyParts : GenerateMemoryCards(key_part)

SpecMemory == InitMemory /\ [][NextMemory]_vars

----------------------------------------------------------------------------
(* SpecMpesa: checkout with M-Pesa by a verified buyer, and the callbacks   *)
(* the payment provider posts to /mpesa/callback.                            *)

MaxPayments == 2
InitialStock == 2

ProductIds == {1, 2}

\* [success, checkout_request_id], the part of parse_callback's result that
\* mpesa_callback reads: success is `result_code == 0`
parse_callback(result_code, checkout_request_id) ==
    [success |-> (result_code = 0), checkout_request_id |-> checkout_request_id]

\* ResultCode of a callback: 0 for a payment made, 1032 for one cancelled by the user
ResultCodes == {0, 1032}

\* the CheckoutRequestID the provider returns for the STK push of a payment
checkout_id_for(payment_id) == payment_id

InitMpesa ==
    /\ key = <<>>
    /\ num_parts = DefaultNumParts
    /\ key_parts = [called |-> FALSE, raised |-> FALSE, parts |-> <<>>]
    /\ challenges = <<>>
    /\ progress = EmptyBag
    /\ current_user = <<>>
    /\ session = <<>>
    /\ response = None
    /\ issued = {}
    /\ completed_in = {}
    /\ inflight = {}
    /\ scramble = [pc |-> "idle"]
    /\ startup = [pc |-> "idle"]
    /\ now = 0
    /\ requests = <<>>
    /\ solved = <<>>
    /\ buyer = <<>>
    /\ seller = <<>>
    /\ hub = [rendered |-> FALSE]
    /\ slider = [pc |-> "idle"]
    /\ payments = <<>>
    /\ products = [p \in ProductIds |-> [stock |-> InitialStock, is_active |-> TRUE]]

\* POST /checkout/<product_id> with payment_method_id 'mpesa' and a valid
\* phone number; stk_success is result.get('success') of the STK push.  The
\* payment and its order are one row here; decrements is history: how often
\* a callback has taken one from the stock for this payment
checkout(product_id, stk_success) ==
    /\ Len(payments) < MaxPayments
    /\ IF product_id \notin DOMAIN products \/ ~products[product_id].is_active
       THEN /\ response' = "not found"
            /\ UNCHANGED payments
       ELSE IF products[product_id].stock <= 0
       THEN /\ response' = "out of stock"
            /\ UNCHANGED payments
       ELSE IF stk_success
       THEN /\ payments' = Append(payments,
                               [product_id          |-> product_id,
                                status              |-> "PENDING",
                                checkout_request_id |-> checkout_id_for(Len(payments) + 1),
                                decrements          |-> 0])
            /\ response' = "mpesa_pending"
       ELSE \* db_session.delete(order); db_session.delete(payment)
            /\ response' = "M-Pesa Error"
            /\ UNCHANGED payments
    /\ UNCHANGED <<engine_vars_but_response, scramble, startup, flag_vars, hub, slider, products>>

\* POST /mpesa/callback with a stkCallback of the given ResultCode and
\* CheckoutRequestID
mpesa_callback(result_code, checkout_request_id) ==
    LET result  == parse_callback(result_code, checkout_request_id)
        matches == {i \in DOMAIN payments :
                       payments[i].checkout_request_id = result.checkout_request_id}
    IN  /\ response' = "Accepted"
        /\ IF matches = {}
           THEN UNCHANGED <<payments, products>>
           ELSE LET id      == CHOOSE i \in matches : \A j \in matches : i <= j
                    payment == payments[id]
                    product == products[payment.product_id]
                IN  IF result.success
                    THEN IF product.stock > 0
                         THEN /\ payments' = [payments EXCEPT ![id].status = "COMPLETED",
                                                              ![id].decrements = @ + 1]
                              /\ products' = [products EXCEPT ![payment.product_id].stock = @ - 1]
                         ELSE /\ payments' = [payments EXCEPT ![id].status = "COMPLETED"]
                              /\ UNCHANGED products
                    ELSE /\ payments' = [payments EXCEPT ![id].status = "FAILED"]
                         /\ UNCHANGED products
        /\ UNCHANGED <<engine_vars_but_response, scramble, startup, flag_vars, hub, slider>>

NextMpesa ==
    \/ \E product_id \in ProductIds \cup {0}, stk_success \in BOOLEAN :
           checkout(product_id, stk_success)
    \/ \E result_code \in ResultCodes, checkout_request_id \in 1 .. MaxPayments + 1 :
           mpesa_callback(result_code, checkout_request_id)

SpecMpesa == InitMpesa /\ [][NextMpesa]_vars

----------------------------------------------------------------------------
\* C1: for every non-empty key and every part count in 1..8, the values of the
\* parts returned by split_key, concatenated in list order, are the key itself.
C1_RoundTrip ==
    (key_parts.called /\ key # <<>> /\ num_parts >= 1) => ConcatValues(key_parts.parts) = key

\* a key longer than the part count has been split with a remainder
C1_Witness ==
    /\ key_parts.called
    /\ Len(key) = 5
    /\ num_parts = 3
    /\ Len(key_parts.parts) = 3
    /\ key_parts.parts[1].value # key_parts.parts[3].value

----------------------------------------------------------------------------
\* C3: every get_revealed_key(user, challenge, split_key(key)) result has the
\* length of the key, whatever the key and whatever set of minigames the user
\* has completed.
C3_LengthPreserved ==
    response.op = "get_revealed_key" => Len(response.result) = Len(key)

\* a partly revealed key: parts of size 2 and of size 1, some revealed, some masked
C3_Witness ==
    /\ response.op = "get_revealed_key"
    /\ Len(key) = 6
    /\ has_completed(progress, response.user_id, ManagerChallenge, "wheel")
    /\ ~has_completed(progress, response.user_id, ManagerChallenge, "quiz")
    /\ \E i \in DOMAIN response.result : response.result[i] = "*"
    /\ \E i \in DOMAIN response.result : response.result[i] # "*"

----------------------------------------------------------------------------
\* number of characters of the parts that precede part i
RECURSIVE PartStart(_, _)
PartStart(parts, i) ==
    IF i <= 1 THEN 0 ELSE PartStart(parts, i - 1) + Len(parts[i - 1].value)

\* two keys agree on every part whose game type the user has completed
AgreeOnRevealed(table, u, k1, k2) ==
    LET p1 == default_parts(k1)
        p2 == default_parts(k2)
    IN  /\ Len(p1) = Len(p2)
        /\ \A i \in DOMAIN p1 :
               has_completed(table, u, ManagerChallenge, p1[i].game_type)
                   => p1[i].value = p2[i].value

\* C4: get_revealed_key leaks no undisclosed character: every output position
\* inside a part whose game type the user has not completed is '*', and two keys
\* of equal length that agree on the parts revealed to the user give the same
\* output for that user.
C4_NoLeak ==
    response.op = "get_revealed_key" =>
        LET u     == response.user_id
            parts == default_parts(key)
        IN  /\ \A i \in DOMAIN parts :
                   ~has_completed(progress, u, ManagerChallenge, parts[i].game_type)
                       => \A j \in 1 .. Len(parts[i].value) :
                              /\ PartStart(parts, i) + j \in DOMAIN response.result
                              /\ response.result[PartStart(parts, i) + j] = "*"
            /\ \A k2 \in Keys :
                   (Len(k2) = Len(key) /\ AgreeOnRevealed(progress, u, key, k2))
                       => get_revealed_key(progress, u, ManagerChallenge, default_parts(k2))
                              = response.result

\* a user who completed some games but not the one guarding a two-character part
C4_Witness ==
    /\ response.op = "get_revealed_key"
    /\ Len(key) = 6
    /\ ~has_completed(progress, response.user_id, ManagerChallenge, "wheel")
    /\ has_completed(progress, response.user_id, ManagerChallenge, "quiz")
    /\ has_completed(progress, response.user_id, ManagerChallenge, "scramble")
    /\ \E k2 \in Keys : k2 # key /\ Len(k2) = Len(key)
                        /\ AgreeOnRevealed(progress, response.user_id, key, k2)

----------------------------------------------------------------------------
\* C5: with no completed minigame the revealed key is all '*'; with every game
\* type of the split key completed it is the key itself.
C5_NoneAndAll ==
    response.op = "get_revealed_key" =>
        LET u     == response.user_id
            parts == default_parts(key)
        IN  /\ progress_rows(progress, u, ManagerChallenge) = {}
                   => response.result = Stars(Len(key))
            /\ (\A i \in DOMAIN parts :
                    has_completed(progress, u, ManagerChallenge, parts[i].game_type))
                   => response.result = key

\* all five games completed on a six-character key with two different characters
C5_Witness ==
    /\ response.op = "get_revealed_key"
    /\ Len(key) = 6
    /\ key[1] # key[2]
    /\ \A g \in GameTypes : has_completed(progress, response.user_id, ManagerChallenge, g)
    /\ response.result = key

\* no game completed on a non-empty key
C5_WitnessNone ==
    /\ response.op = "get_revealed_key"
    /\ Len(key) = 6
    /\ progress = EmptyBag
    /\ response.result = Stars(6)

----------------------------------------------------------------------------
\* C6: a second sequential mark_game_completed call with the arguments of the
\* call before it leaves the store as it was, with exactly one row for that
\* (user, challenge, game type).
C6_Idempotent ==
    [][(response'.op = "mark_game_completed" /\ response'.repeated) =>
          /\ progress' = progress
          /\ RowCount(progress', response'.args[1], response'.args[2], response'.args[3]) = 1
      ]_vars

\* the second of two identical calls has returned
C6_Witness ==
    /\ response.op = "mark_game_completed"
    /\ response.repeated
    /\ response.args[4] # <<>>
    /\ BagCardinality(progress) = 1

----------------------------------------------------------------------------
(* Requests, as the claims about the routes name them *)

completion_request(s, c, g) ==
    \/ g = "wheel" /\ wheel_complete(s, c)
    \/ g = "quiz" /\ \E answers \in FewAnswers : quiz_submit(s, c, answers)
    \/ g = "memory" /\ memory_complete(s, c)
    \/ g = "slider" /\ \E puzzle_state \in SubmittedSliderStates : slider_complete(s, c, puzzle_state)
    \/ g = "scramble" /\ \E answer \in SubmittedWords : scramble_submit(s, c, answer)

generation_of(s, c, g) ==
    \/ g = "wheel" /\ wheel_spin(s, c)
    \/ g = "quiz" /\ quiz_game(s, c)
    \/ g = "memory" /\ memory_game(s, c)
    \/ g = "slider" /\ slider_puzzle(s, c)
    \/ g = "scramble" /\ scramble_game(s, c)

\* number of rows for a challenge and a game type, of any user
PairRows(table, c, g) ==
    LET RECURSIVE Sum(_)
        Sum(S) == IF S = {} THEN 0
                  ELSE LET u == CHOOSE x \in S : TRUE
                       IN  RowCount(table, u, c, g) + Sum(S \ {u})
    IN  Sum(Users)

----------------------------------------------------------------------------
\* C2: the progress table never holds two rows for one (user, challenge,
\* minigame type), also when completion requests for the same triple are
\* served concurrently.
C2_AtMostOneRow ==
    \A u \in Users, c \in Challenges, g \in GameTypes : RowCount(progress, u, c, g) <= 1

----------------------------------------------------------------------------
\* C7: a completion request that finds no puzzle state for its (challenge,
\* game type) in the session is answered 'Invalid session' and adds no row;
\* whenever a request adds a row for a (challenge, game type), a generation
\* request for that pair has stored puzzle state in that session before.
C7_GenerationFirst ==
    [][\A s \in Sessions, c \in RequestChallenges, g \in GameTypes :
          /\ (/\ falsy(session[s][<<g, c>>])
              /\ ~(response' = "Invalid session" /\ progress' = progress))
                 => ~completion_request(s, c, g)
          /\ (progress' # progress /\ PairRows(progress', c, g) # PairRows(progress, c, g)
                  /\ completion_request(s, c, g))
                 => \E u \in Users : <<s, u, c, g>> \in issued
      ]_vars

\* a completion was accepted after its generation request, and a later
\* completion request without puzzle state was turned down
C7_Witness ==
    /\ response = "Invalid session"
    /\ \E s \in Sessions, c \in Challenges :
           /\ <<s, SoloUser, c, "slider">> \in completed_in
           /\ <<s, SoloUser, c, "slider">> \in issued
           /\ RowCount(progress, SoloUser, c, "slider") = 1
           /\ falsy(session[s][<<"slider", c>>])

----------------------------------------------------------------------------
\* C8: a successful completion removes the puzzle state of its (challenge,
\* game type) from the session; every later completion request that the user
\* makes in that session for the pair is answered 'Invalid session'; a
\* generation request of a user who has completed the game stores no puzzle
\* state.
C8_NoReplay ==
    [][\A s \in Sessions, c \in RequestChallenges, g \in GameTypes :
          /\ (response' = "success" /\ completion_request(s, c, g))
                 => falsy(session'[s][<<g, c>>])
          /\ (<<s, current_user[s], c, g>> \in completed_in /\ completion_request(s, c, g))
                 => response' = "Invalid session"
          /\ (has_completed(progress, current_user[s], c, g) /\ generation_of(s, c, g))
                 => session'[s][<<g, c>>] = session[s][<<g, c>>]
      ]_vars

----------------------------------------------------------------------------
\* the game types a user has completed on a challenge
CompletedGames(table, u, c) == {g \in GameTypes : has_completed(table, u, c, g)}

AesEasy == "aes_easy"

\* C9: the key "SECRET12" of challenge "aes_easy" splits into five parts of
\* lengths 2,2,2,1,1 bound to wheel, quiz, memory, slider, scramble in that
\* order; with exactly wheel and quiz completed the revealed key is
\* "SECR****", with all five completed it is "SECRET12".
C9_Scenario ==
    (challenge_found(challenges, AesEasy) /\ get_challenge_key(challenges, AesEasy) = SECRET12) =>
        LET parts == split_key(get_challenge_key(challenges, AesEasy), DefaultNumParts)
            done  == CompletedGames(progress, SoloUser, AesEasy)
            shown == get_revealed_key(progress, SoloUser, AesEasy, parts)
        IN  /\ [i \in DOMAIN parts |-> Len(parts[i].value)] = <<2, 2, 2, 1, 1>>
            /\ [i \in DOMAIN parts |-> parts[i].game_type] = minigame_types
            /\ done = {"wheel", "quiz"}
                   => shown = <<"S", "E", "C", "R", "*", "*", "*", "*">>
            /\ done = GameTypes => shown = SECRET12

\* all five games completed through the routes
C9_Witness ==
    /\ get_challenge_key(challenges, AesEasy) = SECRET12
    /\ CompletedGames(progress, SoloUser, AesEasy) = GameTypes
    /\ \A g \in GameTypes : \E s \in Sessions : <<s, SoloUser, AesEasy, g>> \in completed_in

\* exactly wheel and quiz completed through the routes
C9_WitnessTwo ==
    /\ get_challenge_key(challenges, AesEasy) = SECRET12
    /\ CompletedGames(progress, SoloUser, AesEasy) = {"wheel", "quiz"}

----------------------------------------------------------------------------
\* the positions at which a submitted answer equals the stored correct index
CorrectPositions(questions, answers) ==
    {i \in DOMAIN questions : i \in DOMAIN answers /\ answers[i] = QUIZ_ANSWERS[questions[i]]}

\* C10: a quiz submission against the three questions held in the session
\* succeeds, recording progress, exactly when at least 2 submitted answers
\* equal the correct index at their position; a missing position is incorrect.
C10_QuizBoundary ==
    [][\A s \in Sessions, c \in Challenges, answers \in SubmittedAnswers :
          (/\ ~falsy(session[s][<<"quiz", c>>])
           /\ response' \in {"success", "failure"}
           /\ quiz_submit(s, c, answers)) =>
              LET questions == session[s][<<"quiz", c>>].questions
                  correct   == Cardinality(CorrectPositions(questions, answers))
              IN  /\ Len(questions) = QuizCount
                  /\ correct >= 2 <=>
                        /\ response' = "success"
                        /\ has_completed(progress', current_user[s], c, "quiz")
                  /\ correct < 2 =>
                        /\ response' = "failure"
                        /\ progress' = progress
      ]_vars

\* a quiz was passed: its row is there and its puzzle state is gone
C10_Witness ==
    /\ response = "success"
    /\ \E s \in Sessions, c \in Challenges :
           /\ has_completed(progress, SoloUser, c, "quiz")
           /\ falsy(session[s][<<"quiz", c>>])

\* a quiz was failed: the questions are still held and no row was written
C10_WitnessFail ==
    /\ response = "failure"
    /\ progress = EmptyBag
    /\ \E s \in Sessions, c \in Challenges : ~falsy(session[s][<<"quiz", c>>])

----------------------------------------------------------------------------
\* C16: for a non-empty key of length L split into n >= 1 parts, part i
\* (0 <= i < n) has floor(L/n)+1 characters when i < L mod n and floor(L/n)
\* otherwise; a part of size 0 is not in the result.
C16_PartSizes ==
    (key_parts.called /\ key # <<>> /\ num_parts >= 1) =>
        \A i \in 0 .. num_parts - 1 :
            LET L      == Len(key)
                size   == (L \div num_parts) + (IF i < L % num_parts THEN 1 ELSE 0)
                places == {j \in DOMAIN key_parts.parts : key_parts.parts[j].index = i}
            IN  IF size = 0 THEN places = {}
                ELSE /\ Cardinality(places) = 1
                     /\ \A j \in places : Len(key_parts.parts[j].value) = size

\* a key of 5 characters was split into 8 parts: the first 5 mod 8 parts
\* have one character and the other three are omitted
C16_Witness ==
    /\ key_parts.called
    /\ Len(key) = 5
    /\ num_parts = 8
    /\ Len(key_parts.parts) = 5
    /\ Len(key_parts.parts[5].value) = 1

----------------------------------------------------------------------------
\* C17: every part split_key returns has a non-empty value, the indices of
\* the returned parts are 0..m-1 in order with no gap, and the part with
\* index i has the game type at position i mod 5 of the cycle wheel, quiz,
\* memory, slider, scramble.
C17_PartsWellFormed ==
    key_parts.called =>
        \A j \in DOMAIN key_parts.parts :
            LET part == key_parts.parts[j]
            IN  /\ part.value # <<>>
                /\ part.index = j - 1
                /\ part.game_type =
                       <<"wheel", "quiz", "memory", "slider", "scramble">>[(part.index % 5) + 1]

\* six parts were returned: the sixth starts the cycle again
C17_Witness ==
    /\ key_parts.called
    /\ Len(key_parts.parts) = 6
    /\ key_parts.parts[6].game_type = "wheel"
    /\ key_parts.parts[5].game_type = "scramble"

----------------------------------------------------------------------------
\* C18: split_key of the empty key returns the empty sequence and does not
\* raise, for every part count (0 included).
C18_EmptyKey ==
    (key_parts.called /\ key = <<>>) => (~key_parts.raised /\ key_parts.parts = <<>>)

\* the empty key was split into 0 parts, and into the default 5
C18_Witness ==
    /\ key_parts.called
    /\ key = <<>>
    /\ num_parts \in {0, DefaultNumParts}
    /\ ~key_parts.raised

----------------------------------------------------------------------------
\* the fields of a payload: the pieces between its colons, in order
RECURSIVE Fields(_)
Fields(s) ==
    LET colons == {i \in DOMAIN s : s[i] = ":"}
    IN  IF colons = {} THEN <<s>>
        ELSE LET c == CHOOSE i \in colons : \A j \in colons : i <= j
             IN  <<SubSeq(s, 1, c - 1)>> \o Fields(SubSeq(s, c + 1, Len(s)))

\* the first n characters of s
Prefix(s, n) == [i \in 1 .. (IF Len(s) < n THEN Len(s) ELSE n) |-> s[i]]

KeyCalls ==
    response.op = "get_challenge_key" /\ response.found

PayloadOfCall == challenges[response.challenge_id].encrypted_message

\* C20: the key get_challenge_key returns is the second colon-delimited
\* field of the payload whenever the payload contains a colon (further colons
\* change nothing), and the first 16 characters of the payload when it
\* contains none.
C20_KeyField ==
    KeyCalls =>
        IF \E i \in DOMAIN PayloadOfCall : PayloadOfCall[i] = ":"
        THEN response.result = Fields(PayloadOfCall)[2]
        ELSE response.result = Prefix(PayloadOfCall, 16)

\* C20 as amended: the same, for every payload but the empty one, whose key
\* is the fixed string UNKNOWNKEY123456.
C20_KeyFieldAmended ==
    KeyCalls =>
        IF \E i \in DOMAIN PayloadOfCall : PayloadOfCall[i] = ":"
        THEN response.result = Fields(PayloadOfCall)[2]
        ELSE IF PayloadOfCall = <<>>
        THEN response.result =
                 <<"U", "N", "K", "N", "O", "W", "N", "K", "E", "Y", "1", "2", "3", "4", "5", "6">>
        ELSE response.result = Prefix(PayloadOfCall, 16)

\* the key of a payload with a colon inside its ciphertext was taken, the
\* first delimiter lying beyond the 16th character
C20_Witness ==
    /\ KeyCalls
    /\ PayloadOfCall = LONG20 \o <<":", "K", "9", ":", "Z">>
    /\ response.result = <<"K", "9">>

\* the key of a payload of 17 characters without a colon was taken
C20_WitnessFallback ==
    /\ KeyCalls
    /\ PayloadOfCall = SubSeq(LONG20, 1, 17)
    /\ Len(response.result) = 16

----------------------------------------------------------------------------
\* C11: verify_slider_solution accepts the arrangement 1,2,3,4,5,6,7,8,0 and
\* no other arrangement of the nine tiles, rotations and transpositions of it
\* included; a slider completion request records progress exactly when the
\* submitted arrangement is that one.
C11_SliderExact ==
    [][\A s \in Sessions, c \in Challenges, puzzle_state \in SliderArrangements :
          (/\ ~falsy(session[s][<<"slider", c>>])
           /\ response' \in {"success", "failure"}
           /\ slider_complete(s, c, puzzle_state)) =>
              IF puzzle_state = <<1, 2, 3, 4, 5, 6, 7, 8, 0>>
              THEN /\ response' = "success"
                   /\ has_completed(progress', current_user[s], c, "slider")
              ELSE /\ response' = "failure"
                   /\ progress' = progress
      ]_vars

\* the solved arrangement was submitted: the row is there and the puzzle
\* state is gone
C11_Witness ==
    /\ response = "success"
    /\ \E s \in Sessions, c \in Challenges :
           /\ current_user[s] # NoUser
           /\ has_completed(progress, current_user[s], c, "slider")
           /\ <<s, current_user[s], c, "slider">> \in completed_in
           /\ falsy(session[s][<<"slider", c>>])

\* an arrangement was turned down: no row, and the puzzle state still there
C11_WitnessRejected ==
    /\ response = "failure"
    /\ progress = EmptyBag
    /\ \E s \in Sessions, c \in Challenges : ~falsy(session[s][<<"slider", c>>])

----------------------------------------------------------------------------
\* number of places of x that hold the character ch
Occurrences(x, ch) == Cardinality({i \in DOMAIN x : x[i] = ch})

IsPermutationOf(x, y) ==
    /\ Len(x) = Len(y)
    /\ \A ch \in {x[i] : i \in DOMAIN x} \cup {y[i] : i \in DOMAIN y} :
           Occurrences(x, ch) = Occurrences(y, ch)

\* C12: for every word of the 10-word list, the 'scrambled' string that
\* generate_scramble returns is a permutation of the characters of 'word'
\* and differs from 'word'; and wherever the call stands in its reshuffle
\* loop, some rearrangement of the word differs from the word, so that the
\* loop can exit.
C12_Scrambled ==
    /\ scramble.pc = "returned" =>
           /\ \E i \in 1 .. 10 : scramble.word = SCRAMBLE_WORDS[i]
           /\ IsPermutationOf(scramble.scrambled, scramble.word)
           /\ scramble.scrambled # scramble.word
    /\ scramble.pc \in {"shuffle", "while"} =>
           /\ IsPermutationOf(scramble.scrambled, scramble.word)
           /\ \E a, b \in DOMAIN scramble.word :
                  Transposition(scramble.word, a, b) # scramble.word

\* the first shuffle left the word as it was (HASHING with its two H
\* exchanged), the loop shuffled again, and the call returned
C12_Witness ==
    /\ scramble.pc = "returned"
    /\ scramble.word = <<"H", "A", "S", "H", "I", "N", "G">>
    /\ scramble.scrambled = <<"A", "H", "S", "H", "I", "N", "G">>

\* the call stands in the loop with the list equal to the word
C12_WitnessLoop ==
    /\ scramble.pc = "shuffle"
    /\ scramble.scrambled = scramble.word
    /\ Len(scramble.word) = 12

----------------------------------------------------------------------------
\* C19: the startup initialization never leaves its try block on an id that
\* exists already, and once it has run each of aes_easy, vigenere_medium and
\* rsa_hard is in the store, whatever subset of them was there before.
C19_DefaultsExist ==
    startup.pc = "booted" =>
        /\ ~startup.error
        /\ {"aes_easy", "vigenere_medium", "rsa_hard"} \subseteq DOMAIN challenges

----------------------------------------------------------------------------
\* C14: the mapping Challenge.to_dict(exclude_flag=True) returns has no
\* 'flag' entry, and none of its text entries is the challenge's flag.
C14_FlagExcluded ==
    (response.op = "to_dict" /\ response.exclude_flag) =>
        /\ "flag" \notin DOMAIN response.result
        /\ \A field \in DOMAIN response.result \cap {"id", "type", "difficulty", "description", "points"} :
               response.result[field] # challenges[response.challenge_id].flag

----------------------------------------------------------------------------
\* the submissions of user u let through in the 60 seconds before now
LetThroughInWindow(u) == {i \in DOMAIN requests[u] : now - requests[u][i] < 60}

C13_WitnessResumed ==
    /\ now = 60
    /\ requests[SoloUser] = <<60>>
    /\ response = "solved"

----------------------------------------------------------------------------
\* the challenges of a difficulty whose flag user u has submitted
SolvedOf(u, difficulty) == {c \in solved[u] : Difficulty[c] = difficulty}

\* C15: whatever flag submissions were made, under whatever 'mode', a user
\* passes the buyer gate only with at least 3 solved easy challenges and the
\* seller gate only with at least 5 solved hard challenges.
C15_GatesCountDifficulty ==
    \A u \in Users :
        /\ buyer_required(u) => Cardinality(SolvedOf(u, "easy")) >= 3
        /\ seller_required(u) => Cardinality(SolvedOf(u, "hard")) >= 5

----------------------------------------------------------------------------
\* C23: for a challenge whose key has no part for a game type, a generation
\* request for that game type is answered 'not available' and leaves the
\* session as it was, and the table never holds a row of that game type for
\* the challenge.
C23_NoPartNoRecord ==
    [][\A c \in Challenges, g \in GameTypes :
          game_part(challenges, c, g) = <<>> =>
              /\ PairRows(progress', c, g) = 0
              /\ \A s \in Sessions :
                     (response' # "not available" \/ session' # session)
                         => ~generation_of(s, c, g)
      ]_vars

\* a challenge whose key has no scramble part: the wheel was completed on it
\* and the request for another game was redirected
C23_Witness ==
    /\ response = "not available"
    /\ \E c \in Challenges :
           /\ Len(default_parts(get_challenge_key(challenges, c))) < DefaultNumParts
           /\ game_part(challenges, c, "scramble") = <<>>
           /\ RowCount(progress, SoloUser, c, "wheel") = 1

----------------------------------------------------------------------------
\* the index of the part of a challenge's key bound to a game type
part_index_of(table, challenge_id, g) ==
    LET parts == default_parts(get_challenge_key(table, challenge_id))
    IN  {parts[i].index : i \in {j \in DOMAIN parts : parts[j].game_type = g}}

\* C24: the part_index of every row created through the completion routes is
\* the index of the split-key part whose game_type is the row's minigame_type.
C24_PartIndex ==
    \A r \in BagToSet(progress) :
        r.part_index \in part_index_of(challenges, r.challenge_id, r.minigame_type)

----------------------------------------------------------------------------
\* C25: a row of user U for a (challenge, game type) exists only if U made a
\* generation request for that pair before, also when users take turns on
\* one browser session.
C25_OwnGeneration ==
    \A r \in BagToSet(progress) :
        \E s \in Sessions : <<s, r.user_id, r.challenge_id, r.minigame_type>> \in issued

----------------------------------------------------------------------------
\* the positions of a challenge's key that get_revealed_key shows to a user
RevealedPositions(table, u, c) ==
    LET shown == get_revealed_key(table, u, c, default_parts(get_challenge_key(challenges, c)))
    IN  {i \in DOMAIN shown : shown[i] # "*"}

\* C26: no step removes or changes a row of the progress table, and the set
\* of key positions get_revealed_key shows to a user never shrinks.
C26_AppendOnly ==
    [][progress' # progress =>
          /\ \A r \in BagToSet(progress) : CopiesIn(r, progress') >= CopiesIn(r, progress)
          /\ \A u \in Users, c \in Challenges :
                 RevealedPositions(progress, u, c) \subseteq RevealedPositions(progress', u, c)
      ]_vars

\* a second row was added next to the first, and both parts are shown
C26_Witness ==
    /\ BagCardinality(progress) >= 2
    /\ \E c \in Challenges :
           /\ RowCount(progress, SoloUser, c, "wheel") = 1
           /\ RowCount(progress, SoloUser, c, "quiz") = 1
           /\ Cardinality(RevealedPositions(progress, SoloUser, c))
                  = Len(game_part(challenges, c, "wheel")) + Len(game_part(challenges, c, "quiz"))

----------------------------------------------------------------------------
\* C27: a quiz submission with fewer than 2 correct answers, a slider state
\* other than the solved one and a wrong scramble word, each against puzzle
\* state held in the session, are answered with a failure; a failure adds no
\* row and leaves the whole session as it was.
C27_FailureKeepsState ==
    [][/\ response' = "failure" => (progress' = progress /\ session' = session)
       /\ \A s \in Sessions, c \in Challenges :
              /\ (~falsy(session[s][<<"quiz", c>>]) /\ response' # "failure")
                     => \A answers \in FewAnswers :
                            Cardinality(CorrectPositions(session[s][<<"quiz", c>>].questions,
                                                         answers)) < QuizPassMark
                                => ~quiz_submit(s, c, answers)
              /\ (~falsy(session[s][<<"slider", c>>]) /\ response' # "failure")
                     => \A puzzle_state \in SubmittedSliderStates \ {SLIDER_SOLUTION} :
                            ~slider_complete(s, c, puzzle_state)
              /\ (~falsy(session[s][<<"scramble", c>>]) /\ response' # "failure")
                     => \A answer \in SubmittedWords :
                            Strip(Upper(answer)) # session[s][<<"scramble", c>>].word
                                => ~scramble_submit(s, c, answer)
      ]_vars

\* a slider submission failed and the puzzle state of the slider and of
\* another game is still in the session
C27_Witness ==
    /\ response = "failure"
    /\ \E s \in Sessions, c \in Challenges :
           /\ ~falsy(session[s][<<"slider", c>>])
           /\ ~falsy(session[s][<<"quiz", c>>])
           /\ ~has_completed(progress, SoloUser, c, "slider")

----------------------------------------------------------------------------
\* what the manager tells about a user on a challenge
ProgressView(table, u, c) ==
    <<get_user_progress(table, u, c),
      get_revealed_key(table, u, c, default_parts(get_challenge_key(challenges, c)))>>

\* C28: a completion by user U on challenge C with game type G adds a row
\* only for (U, C, G), and get_user_progress and get_revealed_key return what
\* they returned before for every other user and every other challenge of U.
C28_Isolated ==
    [][\A u \in IsolateUsers, c \in IsolateChallenges, g \in GameTypes :
          (/\ response'.op = "mark_game_completed"
           /\ response'.args = <<u, c, g>>
           /\ MarkGameCompletedOn(u, c, g)) =>
              /\ \A r \in BagToSet(progress') :
                     CopiesIn(r, progress') # CopiesIn(r, progress)
                         => (r.user_id = u /\ r.challenge_id = c /\ r.minigame_type = g)
              /\ \A v \in IsolateUsers, d \in IsolateChallenges :
                     (v # u \/ d # c) => ProgressView(progress', v, d) = ProgressView(progress, v, d)
      ]_vars

\* a completion of one user on one challenge has been recorded while the
\* other user and the other challenge have rows of their own
C28_Witness ==
    /\ response.op = "mark_game_completed"
    /\ \E u, v \in IsolateUsers, c, d \in IsolateChallenges :
           /\ v # u
           /\ d # c
           /\ response.args = <<u, c, "quiz">>
           /\ RowCount(progress, u, c, "quiz") = 1
           /\ RowCount(progress, v, c, "wheel") = 1
           /\ RowCount(progress, u, d, "wheel") = 1
           /\ ~has_completed(progress, v, c, "quiz")
           /\ ~has_completed(progress, u, d, "quiz")

----------------------------------------------------------------------------
\* C29: while the key of a challenge stays as it is, the revealed_part of
\* every row is the value of the split-key part bound to the row's game
\* type, and the revealed key on the hub page, composed from the stored
\* revealed parts, is get_revealed_key on a fresh split of the key.
C29_HubKey ==
    [][/\ \A r \in BagToSet(progress') :
              r.revealed_part = game_part(challenges, r.challenge_id, r.minigame_type)
       /\ \A s \in Sessions, c \in Challenges :
              (response' = "hub" /\ minigames_hub(s, c)) =>
                  hub'.revealed_key
                      = get_revealed_key(progress, current_user[s], c,
                                         default_parts(get_challenge_key(challenges, c)))
      ]_vars

\* the hub page of a user with one part revealed and another still masked
C29_Witness ==
    /\ response = "hub"
    /\ hub.rendered
    /\ \E i, j \in DOMAIN hub.key_parts :
           /\ hub.key_parts[i].revealed
           /\ ~hub.key_parts[j].revealed
    /\ \E i \in DOMAIN hub.revealed_key : hub.revealed_key[i] = "*"
    /\ \E i \in DOMAIN hub.revealed_key : hub.revealed_key[i] # "*"

----------------------------------------------------------------------------
\* C30: however many success callbacks arrive for the checkout_request_id of
\* a payment, the stock of its product is decremented for that payment at
\* most once.
C30_StockOnce ==
    \A id \in DOMAIN payments : payments[id].decrements <= 1

----------------------------------------------------------------------------
\* C22: the cards of generate_memory_cards(key_part) are two cards for each
\* character of key_part and at most 3 decoy pairs of two cards each, and no
\* decoy card shows a character of key_part.
C22_MemoryCards ==
    response.op = "generate_memory_cards" =>
        LET key_part == response.key_part
            cards    == response.cards
            decoy    == {card \in cards : card.is_decoy}
        IN  /\ \A i \in DOMAIN key_part :
                   Cardinality({card \in cards \ decoy : card.pair_id = i - 1}) = 2
            /\ Cardinality(cards \ decoy) = 2 * Len(key_part)
            /\ Cardinality({card.pair_id : card \in decoy}) <= 3
            /\ \A card \in decoy :
                   Cardinality({other \in decoy : other.pair_id = card.pair_id}) = 2
            /\ \A card \in decoy, i \in DOMAIN key_part : card.value # key_part[i]

----------------------------------------------------------------------------
\* row and column of a place (0-based) of the 3x3 grid
GridRow(idx) == idx \div 3
GridCol(idx) == idx % 3

\* q is p with the empty tile exchanged with a tile next to it in the same
\* row or in the same column
AdjacentSwap(p, q) ==
    LET a == index_of_empty(p)
        b == index_of_empty(q)
    IN  /\ \/ GridRow(a) = GridRow(b) /\ (GridCol(a) - GridCol(b)) \in {-1, 1}
           \/ GridCol(a) = GridCol(b) /\ (GridRow(a) - GridRow(b)) \in {-1, 1}
        /\ q[a + 1] = p[b + 1]
        /\ \A i \in DOMAIN p : (i # a + 1 /\ i # b + 1) => q[i] = p[i]

\* pairs of tiles (the empty tile left out) that stand in the wrong order
Inversions(p) ==
    {<<i, j>> \in (DOMAIN p) \X (DOMAIN p) : i < j /\ p[i] # 0 /\ p[j] # 0 /\ p[i] > p[j]}

\* a 3x3 arrangement can be brought to the solved one by moves exactly when
\* the number of its inversions is even
Solvable(p) == Cardinality(Inversions(p)) % 2 = 0

\* C21: the puzzle of generate_slider_puzzle starts as the solved arrangement
\* and is changed only by moves that exchange the empty tile with a tile next
\* to it in its row or column; it is a permutation of 0..8 and solvable at
\* every move, and the puzzle returned is the one reached by the last move.
C21_SliderWalk ==
    [][slider'.pc # "idle" =>
          /\ Len(slider'.puzzle) = 9
          /\ {slider'.puzzle[i] : i \in DOMAIN slider'.puzzle} = 0 .. 8
          /\ Solvable(slider'.puzzle)
          /\ slider.pc = "idle" => slider'.puzzle = SLIDER_SOLUTION
          /\ (slider.pc = "loop" /\ slider'.pc = "loop") =>
                 /\ AdjacentSwap(slider.puzzle, slider'.puzzle)
                 /\ slider'.i = slider.i + 1
          /\ slider'.pc = "returned" =>
                 /\ slider.i = SliderMoves
                 /\ response'.result.puzzle = slider.puzzle
                 /\ slider'.puzzle = slider.puzzle
      ]_vars

\* a call has returned a puzzle that is not the solved arrangement, with the
\* empty tile away from its corner
C21_Witness ==
    /\ slider.pc = "returned"
    /\ response.op = "generate_slider_puzzle"
    /\ response.result.puzzle # SLIDER_SOLUTION
    /\ response.result.puzzle[5] = 0
    /\ slider.i = SliderMoves

====
